---- MODULE Spec2Model ----
(***************************************************************************)
(* A model of the Hansei sales/inventory backend: the JWT middleware, the  *)
(* upload route and its two processing paths, the inventory update route,  *)
(* the login route, the two standalone import scripts, the global error    *)
(* handler and the chatbot's decision list.                                *)
(*                                                                         *)
(* Strings are JavaScript strings.  The relational tables are keyed by     *)
(* their unique column (products by material, branches by name, inventory  *)
(* by the pair): a serial id is in bijection with that key, so the id      *)
(* lookups of the code (productMap, branchMap) are lookups by key.         *)
(***************************************************************************)
EXTENDS Integers, Sequences, FiniteSets, TLC

VARIABLES
    now,        \* the clock, in hours since the tokens were issued
    at,         \* the clock when the last request arrived
    route,      \* the route or script that ran last ("none" at start)
    hdr,        \* the Authorization header of that request (Undefined when absent)
    authEvents, \* what authenticateToken produced for it: a response or a next() call
    events,     \* every response sent for it, in order
    reqUser,    \* req.user as the middleware left it
    handled,    \* TRUE when the route handler's body ran
    db,         \* the PostgreSQL tables: users, branches, products, inventory
    pre,        \* the tables as they were when the last request or script started
    txn,        \* what the last request or script did with its transaction
    lastFile,   \* the sheet of the last committed upload or import (<<>> before any)
    repeated,   \* TRUE when the last two requests were committed uploads of one sheet
    env,        \* NODE_ENV of the process that produced the last error response
    errs,       \* the internal error behind the last error response ("" when none)
    message,    \* the chatbot message of the last query
    reply,      \* the group of the chatbot's decision list that answered it
    req,        \* what else the last request held: its body, parameters, headers
    out,        \* what else it produced: the token issued, the log record, the rows
    hits,       \* the requests the rate limiter has counted in the current window
    discarded,  \* the token of the latest logout or password change before the
                \* last request ("" when there was none)
    file_uploads,  \* the rows of file_uploads by id, each with the sheet stored
                   \* under its filename
    committedFor,  \* the ids of the files for which a processing transaction
                   \* committed
    checkedOut,    \* the clients of pgPool that are checked out
    procs          \* the requests in flight, each with its position and locals

\* what the handlers that run to their end in one step leave alone
inFlight == <<file_uploads, committedFor, checkedOut, procs>>

vars == <<now, at, route, hdr, authEvents, events, reqUser, handled, db, pre, txn,
          lastFile, repeated, env, errs, message, reply, req, out, hits, discarded,
          file_uploads, committedFor, checkedOut, procs>>

(***************************************************************************)
(* JavaScript values                                                       *)
(***************************************************************************)

\* undefined, kept apart from every string the model uses
Undefined == "<undefined>"

\* String.prototype.split(sep) for a one-character separator
RECURSIVE Split(_, _)
Split(s, sep) ==
    IF \E i \in 1..Len(s) : SubSeq(s, i, i) = sep
    THEN LET i == CHOOSE k \in 1..Len(s) :
                      /\ SubSeq(s, k, k) = sep
                      /\ \A j \in 1..(k - 1) : SubSeq(s, j, j) # sep
         IN  <<SubSeq(s, 1, i - 1)>> \o Split(SubSeq(s, i + 1, Len(s)), sep)
    ELSE <<s>>

\* arr[i] with JavaScript's 0-based index: undefined past the end
At(arr, i) == IF i + 1 <= Len(arr) THEN arr[i + 1] ELSE Undefined

\* String.prototype.includes
Includes(s, k) ==
    \E i \in 1..(Len(s) - Len(k) + 1) : SubSeq(s, i, i + Len(k) - 1) = k

(***************************************************************************)
(* jsonwebtoken                                                            *)
(***************************************************************************)

\* expiresIn: '24h'
TokenTTL == 24

\* the clock advances in steps of ClockStep hours up to MaxClock
ClockStep == 12
MaxClock == 36

\* the tokens signed with the configured secret, the payload each carries and
\* the hour each was issued at
SignedTokens == {"tSmart", "tNormal", "tNoRole", "tOld"}

TokenPayload(t) ==
    CASE t = "tSmart"  -> [id |-> 1, username |-> "smart", role |-> "smart_user"]
      [] t = "tNormal" -> [id |-> 2, username |-> "normal", role |-> "normal_user"]
      [] t = "tNoRole" -> [id |-> 3, username |-> "guest", role |-> Undefined]
      [] t = "tOld"    -> [id |-> 1, username |-> "smart", role |-> "smart_user"]

TokenIssuedAt(t) == IF t = "tOld" THEN 0 - TokenTTL ELSE 0

NoUser == [id |-> 0, username |-> Undefined, role |-> Undefined]

\* jwt.verify(token, secret, callback): the (err, user) pair given to the callback
JwtVerify(token, clock) ==
    IF token \notin SignedTokens
    THEN [err |-> "JsonWebTokenError", user |-> NoUser]
    ELSE IF clock >= TokenIssuedAt(token) + TokenTTL
    THEN [err |-> "TokenExpiredError", user |-> NoUser]
    ELSE [err |-> "none", user |-> TokenPayload(token)]

(***************************************************************************)
(* middleware/auth.js                                                      *)
(***************************************************************************)

\* res.status(status).json({ error: body, details: details })
ResponseWith(status, body, details) ==
    [kind |-> "res", status |-> status, body |-> body, details |-> details]
Response(status, body) == ResponseWith(status, body, "")
CallNext == [kind |-> "next", status |-> 0, body |-> "", details |-> ""]

\* const token = authHeader && authHeader.split(' ')[1]
HeaderToken(authHeader) ==
    IF authHeader = Undefined THEN Undefined
    ELSE IF authHeader = "" THEN ""
    ELSE At(Split(authHeader, " "), 1)

\* authenticateToken in front of a blacklist: the token that the request before
\* this one gave up by its logout or password change is refused
AuthenticateTokenBlacklist(authHeader, clock) ==
    LET token == HeaderToken(authHeader)
        givenUp == IF /\ route \in {"logout", "changePassword"} /\ handled
                      /\ Len(events) = 1 /\ events[1].status = 200
                   THEN HeaderToken(hdr) ELSE discarded
    IN  IF token = Undefined
        THEN [events |-> <<Response(401, "Unauthorized: No token provided")>>,
              user |-> NoUser]
        ELSE IF token = givenUp \/ JwtVerify(token, clock).err # "none"
        THEN [events |-> <<Response(403, "Forbidden: Invalid token.")>>,
              user |-> NoUser]
        ELSE [events |-> <<CallNext>>, user |-> JwtVerify(token, clock).user]

\* authenticateToken with jwt.decode in place of jwt.verify: the payload is read
\* but neither the signature's age nor the callback's err is looked at
AuthenticateTokenDecodeOnly(authHeader, clock) ==
    LET token == HeaderToken(authHeader) IN
    IF token = Undefined
    THEN [events |-> <<Response(401, "Unauthorized: No token provided")>>,
          user |-> NoUser]
    ELSE IF token \notin SignedTokens
    THEN [events |-> <<Response(403, "Forbidden: Invalid token.")>>,
          user |-> NoUser]
    ELSE [events |-> <<CallNext>>, user |-> TokenPayload(token)]

\* authenticateToken: the events it produces and req.user afterwards
AuthenticateToken(authHeader, clock) ==
    LET token == HeaderToken(authHeader) IN
    IF token = Undefined
    THEN [events |-> <<Response(401, "Unauthorized: No token provided")>>,
          user |-> NoUser]
    ELSE LET v == JwtVerify(token, clock) IN
         IF v.err # "none"
         THEN IF v.err = "TokenExpiredError"
              THEN [events |-> <<Response(401, "Unauthorized: Token has expired.")>>,
                    user |-> NoUser]
              ELSE [events |-> <<Response(403, "Forbidden: Invalid token.")>>,
                    user |-> NoUser]
         ELSE [events |-> <<CallNext>>, user |-> v.user]

\* next() was called
HasNext(evs) == \E i \in 1..Len(evs) : evs[i].kind = "next"

\* authorizeRole that only looks for req.user and never compares the role
AuthorizeRoleAnyUser(role, user) ==
    IF user # NoUser
    THEN <<CallNext>>
    ELSE <<Response(403, "Forbidden: You do not have the required permissions.")>>

\* authorizeRole(role): runs after authenticateToken called next()
AuthorizeRole(role, user) ==
    IF user # NoUser /\ user.role = role
    THEN <<CallNext>>
    ELSE <<Response(403, "Forbidden: You do not have the required permissions.")>>

(***************************************************************************)
(* Numbers read from a sheet.  A cell is a string or Undefined (no such    *)
(* property on the row).  Fractions are kept in tenths.                    *)
(***************************************************************************)

NaN == [nan |-> TRUE, tenths |-> 0]
Num(tenths) == [nan |-> FALSE, tenths |-> tenths]

\* parseFloat(cell), over the cells the sheets of the model hold
ParseFloat(cell) ==
    CASE cell = "0"   -> Num(0)
      [] cell = "1"   -> Num(10)
      [] cell = "1.5" -> Num(15)
      [] cell = "2"   -> Num(20)
      [] cell = "3"   -> Num(30)
      [] cell = "4"   -> Num(40)
      [] cell = "5"   -> Num(50)
      [] cell = "0.4" -> Num(4)
      [] OTHER        -> NaN

\* parseInt(cell): the integer part of the leading number
ParseInt(cell) ==
    LET f == ParseFloat(cell) IN
    IF f.nan THEN NaN ELSE Num((f.tenths \div 10) * 10)

\* x || d for a number x: NaN and 0 are falsy
OrDefault(x, d) == IF x.nan \/ x.tenths = 0 THEN d ELSE x.tenths

\* Math.round of a value given in tenths (half rounds up)
RoundTenths(t) == (t + 5) \div 10

\* Math.round(n * num / 10) for integers n >= 0 and num >= 0
RoundScaled(n, num) == (n * num + 5) \div 10

\* value || fallback for a cell
CellOr(cell, fallback) ==
    IF cell = Undefined \/ cell = "" THEN fallback ELSE cell

\* a sequence without its repeated elements, first occurrences kept in order
\* (the iteration order of a JavaScript Set, Map or object of string keys)
RECURSIVE Dedupe(_)
Dedupe(seq) ==
    IF seq = <<>> THEN <<>>
    ELSE LET init == Dedupe(SubSeq(seq, 1, Len(seq) - 1))
             last == seq[Len(seq)]
         IN  IF \E i \in 1..Len(init) : init[i] = last THEN init
             ELSE Append(init, last)

\* Array.prototype.map and Array.prototype.filter
MapSeq(Op(_), seq) == [i \in 1..Len(seq) |-> Op(seq[i])]

FilterSeq(Test(_), seq) == SelectSeq(seq, Test)

(***************************************************************************)
(* The tables                                                              *)
(***************************************************************************)

EmptyTable == [k \in {} |-> 0]

EmptyDb == [users |-> EmptyTable, branches |-> EmptyTable,
            products |-> EmptyTable, inventory |-> EmptyTable]

\* SQL NULL in a numeric or timestamp column
SqlNull == 0 - 1

\* bcrypt.hash and bcrypt.compare
BcryptHash(password) == "bcrypt:" \o password
BcryptCompare(password, hash) == hash = BcryptHash(password)

\* the two rows every seeding and import script inserts into users
DefaultUsers ==
    ("smart" :> [id |-> 1, password |-> BcryptHash("Daikin@Hansei2025!"),
                 full_name |-> "Smart User", role |-> "smart_user",
                 last_login |-> SqlNull])
    @@ ("normal" :> [id |-> 2, password |-> BcryptHash("Analytics@2025"),
                     full_name |-> "Normal User", role |-> "normal_user",
                     last_login |-> SqlNull])

\* one SQL statement applied to the tables it is run against
ApplyStatement(q, t) ==
    CASE q.op = "truncate" -> EmptyDb
      [] q.op = "insertUsers" -> [t EXCEPT !.users = DefaultUsers @@ @]
      [] q.op = "insertBranch" ->
           \* INSERT INTO branches ... ON CONFLICT (name) DO NOTHING
           IF q.key \in DOMAIN t.branches THEN t
           ELSE [t EXCEPT !.branches = @ @@ (q.key :> q.row)]
      [] q.op = "insertProduct" ->
           \* INSERT INTO products ... ON CONFLICT (material) DO NOTHING
           IF q.key \in DOMAIN t.products THEN t
           ELSE [t EXCEPT !.products = @ @@ (q.key :> q.row)]
      [] q.op = "upsertProduct" ->
           \* ... ON CONFLICT (material) DO UPDATE SET every column = EXCLUDED
           [t EXCEPT !.products = (q.key :> q.row) @@ @]
      [] q.op = "upsertFactoryStock" ->
           \* ... ON CONFLICT (material) DO UPDATE SET factory_stock = $6
           IF q.key \in DOMAIN t.products
           THEN [t EXCEPT !.products[q.key].factory_stock = q.row.factory_stock]
           ELSE [t EXCEPT !.products = @ @@ (q.key :> q.row)]
      [] q.op = "upsertInventoryAdd" ->
           \* ... ON CONFLICT DO UPDATE SET column = inventory.column + EXCLUDED.column
           IF q.key \in DOMAIN t.inventory
           THEN LET old == t.inventory[q.key] IN
                [t EXCEPT !.inventory[q.key] =
                    [op_stock   |-> old.op_stock + q.row.op_stock,
                     avl_stock  |-> old.avl_stock + q.row.avl_stock,
                     transit    |-> old.transit + q.row.transit,
                     billing    |-> old.billing + q.row.billing,
                     month_plan |-> old.month_plan + q.row.month_plan]]
           ELSE [t EXCEPT !.inventory = @ @@ (q.key :> q.row)]
      [] q.op = "upsertInventorySet" ->
           \* ... ON CONFLICT DO UPDATE SET column = EXCLUDED.column
           [t EXCEPT !.inventory = (q.key :> q.row) @@ @]
      [] OTHER -> t   \* BEGIN, COMMIT, SELECT

Statement(op, key, row) == [op |-> op, key |-> key, row |-> row]
Plain(op) == Statement(op, "", "")

(***************************************************************************)
(* A run of statements on one connection.  failAt is the number of the     *)
(* statement that fails (0: none does); a failed statement changes         *)
(* nothing and the statements after it are never issued.                   *)
(***************************************************************************)

StartRun(tables, failAt) ==
    [t |-> tables, n |-> 0, failAt |-> failAt, failed |-> FALSE]

\* await client.query(...)
Query(run, q) ==
    IF run.failed THEN run
    ELSE IF run.n + 1 = run.failAt
    THEN [run EXCEPT !.n = @ + 1, !.failed = TRUE]
    ELSE [run EXCEPT !.n = @ + 1, !.t = ApplyStatement(q, @)]

RECURSIVE QueryAll(_, _)
QueryAll(run, qs) ==
    IF qs = <<>> THEN run ELSE QueryAll(Query(run, Head(qs)), Tail(qs))

\* throw: the statements after it are never issued
Throw(run) == [run EXCEPT !.failed = TRUE]

(***************************************************************************)
(* Sheets.  A row is a record of cells by column; a column the row does    *)
(* not have is Undefined.  The columns are those of FinalSales ('Item      *)
(* Code', 'Sales Qty.', 'Branch', 'Tonnage', 'Star rating', 'Technology')  *)
(* and of the inventory sheet ('Material', 'Op Stock', 'Avl Stock',        *)
(* 'Transit', 'Billing', 'Month Plan', 'Factory Stock').                   *)
(***************************************************************************)

SalesRow(code, branch, qty, tonnage, star, technology) ==
    [ItemCode |-> code, SalesQty |-> qty, Branch |-> branch, Tonnage |-> tonnage,
     StarRating |-> star, Technology |-> technology, Material |-> Undefined,
     OpStock |-> Undefined, AvlStock |-> Undefined, Transit |-> Undefined,
     Billing |-> Undefined, MonthPlan |-> Undefined, FactoryStock |-> Undefined]

InventoryRow(material, branch, op, avl, transit, billing, plan) ==
    [ItemCode |-> Undefined, SalesQty |-> Undefined, Branch |-> branch,
     Tonnage |-> Undefined, StarRating |-> Undefined, Technology |-> Undefined,
     Material |-> material, OpStock |-> op, AvlStock |-> avl, Transit |-> transit,
     Billing |-> billing, MonthPlan |-> plan, FactoryStock |-> Undefined]

\* Boolean(cell)
Truthy(cell) == cell # Undefined /\ cell # ""

\* `${cell}`
Template(cell) == IF cell = Undefined THEN "undefined" ELSE cell

RowBranch(row) == row.Branch
RowItemCode(row) == row.ItemCode

\* the first row of data carrying the item code
FirstRowOf(data, code) ==
    data[CHOOSE i \in 1..Len(data) :
            /\ data[i].ItemCode = code
            /\ \A j \in 1..(i - 1) : data[j].ItemCode # code]

(***************************************************************************)
(* routes/upload.js                                                        *)
(***************************************************************************)

GetStateForBranch(branch) ==
    CASE branch = "Chennai"    -> "Tamil Nadu"
      [] branch = "Bangalore"  -> "Karnataka"
      [] branch = "Hyderabad"  -> "Telangana"
      [] branch = "Vijayawada" -> "Andhra Pradesh"
      [] branch = "Cochin"     -> "Kerala"
      [] branch = "Mumbai"     -> "Maharashtra"
      [] branch = "Delhi"      -> "Delhi"
      [] branch = "Kolkata"    -> "West Bengal"
      [] branch = "Pune"       -> "Maharashtra"
      [] branch = "Ahmedabad"  -> "Gujarat"
      [] OTHER                 -> "Unknown"

\* basePrice of generateProductPrice and generatePrice, tonnage in tenths
BasePrice(tonnage, star, technology) ==
    25000 + (tonnage - 8) * 1500 + (star - 1) * 5000
    + (IF Includes(technology, "Inv") THEN 10000 ELSE 0)

GenerateProductPrice(row) ==
    BasePrice(OrDefault(ParseFloat(row.Tonnage), 10),
              OrDefault(ParseInt(row.StarRating), 30) \div 10,
              CellOr(row.Technology, "Non Inv"))

\* the product processCSVSalesData builds from a row (first pass)
UploadProduct(row) ==
    [tonnage |-> OrDefault(ParseFloat(row.Tonnage), 10),
     star |-> OrDefault(ParseInt(row.StarRating), 30) \div 10,
     technology |-> CellOr(row.Technology, "Non Inv"),
     price |-> GenerateProductPrice(row),
     factory_stock |-> 0]

\* parseFloat(row['Sales Qty.']) || 0, in tenths
UploadSalesQty(row) == OrDefault(ParseFloat(row.SalesQty), 0)

\* const key = `${row['Item Code']}-${row.Branch}`
InventoryKey(row) == Template(row.ItemCode) \o "-" \o Template(row.Branch)

RECURSIVE SumSeq(_)
SumSeq(seq) == IF seq = <<>> THEN 0 ELSE Head(seq) + SumSeq(Tail(seq))

\* the inventory record simulated from a pair's rounded sales
SimulatedInventory(billing) ==
    LET monthPlan == RoundScaled(billing, 12)
        availStock == RoundScaled(billing, 5)
        transit == RoundScaled(billing, 2)
    IN  [op_stock |-> availStock + billing - transit, avl_stock |-> availStock,
         transit |-> transit, billing |-> billing, month_plan |-> monthPlan]

ProcessCSVSalesData(data, run) ==
    LET branches == Dedupe(FilterSeq(Truthy, MapSeq(RowBranch, data)))
        codes == Dedupe(FilterSeq(Truthy, MapSeq(RowItemCode, data)))
        BranchInsert(name) ==
            Statement("insertBranch", name,
                      [state |-> GetStateForBranch(name),
                       market_share |-> SqlNull, penetration |-> SqlNull])
        ProductInsert(code) ==
            Statement("insertProduct", code, UploadProduct(FirstRowOf(data, code)))
        r1 == QueryAll(QueryAll(run, MapSeq(BranchInsert, branches)),
                       MapSeq(ProductInsert, codes))
        r2 == QueryAll(r1, <<Plain("select"), Plain("select")>>)
        productMap == DOMAIN r2.t.products
        branchMap == DOMAIN r2.t.branches
        Sold(row) == UploadSalesQty(row) > 0
        sold == FilterSeq(Sold, data)
        keys == Dedupe(MapSeq(InventoryKey, sold))
        TotalSales(key) ==
            LET OfKey(row) == InventoryKey(row) = key
            IN  SumSeq(MapSeq(UploadSalesQty, FilterSeq(OfKey, sold)))
        Mapped(key) ==
            LET parts == Split(key, "-")
            IN  At(parts, 0) \in productMap /\ At(parts, 1) \in branchMap
        Upsert(key) ==
            LET parts == Split(key, "-")
            IN  Statement("upsertInventoryAdd", <<At(parts, 0), At(parts, 1)>>,
                          SimulatedInventory(RoundTenths(TotalSales(key))))
    IN  QueryAll(r2, MapSeq(Upsert, FilterSeq(Mapped, keys)))

\* parseInt(row.op_stock || row['Op Stock'] || 0)
StockCell(cell) ==
    IF ~Truthy(cell) THEN 0 ELSE OrDefault(ParseInt(cell), 0) \div 10

RECURSIVE ProcessExcelInventoryData(_, _)
ProcessExcelInventoryData(data, run) ==
    IF data = <<>> \/ run.failed THEN run
    ELSE LET row == Head(data)
             material == row.Material
             branchName == row.Branch
         IN  IF ~Truthy(material) \/ ~Truthy(branchName)
             THEN ProcessExcelInventoryData(Tail(data), run)
             ELSE LET r1 == QueryAll(run, <<Plain("select"), Plain("select")>>)
                      found == /\ material \in DOMAIN r1.t.products
                               /\ branchName \in DOMAIN r1.t.branches
                      r2 == IF found
                            THEN Query(r1, Statement("upsertInventorySet",
                                     <<material, branchName>>,
                                     [op_stock |-> StockCell(row.OpStock),
                                      avl_stock |-> StockCell(row.AvlStock),
                                      transit |-> StockCell(row.Transit),
                                      billing |-> StockCell(row.Billing),
                                      month_plan |-> StockCell(row.MonthPlan)]))
                            ELSE r1
                  IN  ProcessExcelInventoryData(Tail(data), r2)

ProcessInventoryData(data, run) ==
    LET isCSVSalesData == /\ Len(data) > 0
                          /\ data[1].ItemCode # Undefined
                          /\ data[1].SalesQty # Undefined
                          /\ data[1].Branch # Undefined
    IN  IF isCSVSalesData THEN ProcessCSVSalesData(data, run)
        ELSE ProcessExcelInventoryData(data, run)

\* what a handler or script did with its connection and transaction
\* (resolved: the promise of a script resolved)
NoTxn == [connected |-> FALSE, began |-> FALSE, failed |-> FALSE,
          rollback |-> "none", committed |-> FALSE, released |-> FALSE,
          resolved |-> FALSE]

\* the clients a handler or script that left txn took from the pool and did
\* not give back
Held(t) == IF t.connected /\ ~t.released THEN 1 ELSE 0

\* the tables after COMMIT and after ROLLBACK of a transaction that started
\* from snapshot and reached working.  A ROLLBACK that fails (the connection
\* is gone) leaves the server to abort the transaction: the same tables.
Commit(snapshot, working) == working
Rollback(snapshot, working) == snapshot

\* error.message of what the try block of the upload handler threw
UploadError(file, run0) ==
    IF run0.failed THEN "connection terminated unexpectedly"
    ELSE IF ~file.parses THEN "Unsupported file"
    ELSE IF file.data = <<>>
    THEN "No data found in the uploaded file or file is empty."
    ELSE "connection terminated unexpectedly"

NoFault == [connect |-> FALSE, failAt |-> 0, rollback |-> FALSE]

\* the handler of POST /api/upload, after authenticateToken, authorizeRole and
\* multer: the tables, the responses, the transaction and the error it leaves.
\* fault.connect: pgPool.connect() rejects; fault.failAt: the statement of the
\* transaction that fails, BEGIN being statement 1; fault.rollback: the
\* ROLLBACK of the catch block fails too.
UploadHandler(file, fault, tables) ==
    IF ~file.present
    THEN [db |-> tables, events |-> <<Response(400, "No file uploaded.")>>,
          txn |-> NoTxn, err |-> ""]
    ELSE IF fault.connect
    THEN \* the await is outside the try block: the rejection leaves the handler
         [db |-> tables, events |-> <<>>, txn |-> NoTxn,
          err |-> "timeout exceeded when trying to connect"]
    ELSE LET r0 == Query(StartRun(tables, fault.failAt), Plain("begin"))
             r1 == IF r0.failed THEN r0
                   ELSE IF ~file.parses \/ file.data = <<>> THEN Throw(r0)
                   ELSE ProcessInventoryData(file.data, r0)
             r2 == Query(r1, Plain("commit"))
             t == [NoTxn EXCEPT !.connected = TRUE, !.began = ~r0.failed,
                                !.released = TRUE]
         IN  IF ~r2.failed
             THEN [db |-> Commit(tables, r2.t),
                   events |-> <<ResponseWith(200,
                       "File processed and data imported successfully.", "")>>,
                   txn |-> [t EXCEPT !.committed = TRUE], err |-> ""]
             ELSE IF fault.rollback
             THEN \* the catch block throws before res.status(500)
                  [db |-> Rollback(tables, r2.t), events |-> <<>>,
                   txn |-> [t EXCEPT !.failed = TRUE, !.rollback = "failed"],
                   err |-> UploadError(file, r0)]
             ELSE [db |-> Rollback(tables, r2.t),
                   events |-> <<ResponseWith(500, "Failed to process file.",
                                             UploadError(file, r0))>>,
                   txn |-> [t EXCEPT !.failed = TRUE, !.rollback = "ok"],
                   err |-> UploadError(file, r0)]

(***************************************************************************)
(* routes/sales.js: PUT /inventory/:productId/:branchId                    *)
(***************************************************************************)

\* COALESCE($n, column)
Coalesce(given, column) == IF given = SqlNull THEN column ELSE given

\* the handler with the columns assigned directly, without COALESCE
UpdateInventoryHandlerNoCoalesce(user, key, body, queryFails, tables) ==
    IF user.role # "smart_user"
    THEN [db |-> tables,
          events |-> <<Response(403, "Insufficient permissions to update inventory")>>,
          err |-> ""]
    ELSE IF queryFails
    THEN [db |-> tables, events |-> <<Response(500, "Failed to update inventory")>>,
          err |-> "connection terminated unexpectedly"]
    ELSE IF key \notin DOMAIN tables.inventory
    THEN [db |-> tables, events |-> <<Response(404, "Inventory record not found")>>,
          err |-> ""]
    ELSE LET old == tables.inventory[key] IN
         [db |-> [tables EXCEPT !.inventory[key] =
                    [op_stock   |-> body.op_stock,
                     avl_stock  |-> body.avl_stock,
                     transit    |-> body.transit,
                     billing    |-> body.billing,
                     month_plan |-> body.month_plan]],
          events |-> <<Response(200, "success")>>, err |-> ""]

\* the handler after authenticateToken; queryFails: pgPool.query rejects
UpdateInventoryHandler(user, key, body, queryFails, tables) ==
    IF user.role # "smart_user"
    THEN [db |-> tables,
          events |-> <<Response(403, "Insufficient permissions to update inventory")>>,
          err |-> ""]
    ELSE IF queryFails
    THEN [db |-> tables, events |-> <<Response(500, "Failed to update inventory")>>,
          err |-> "connection terminated unexpectedly"]
    ELSE IF key \notin DOMAIN tables.inventory
    THEN [db |-> tables, events |-> <<Response(404, "Inventory record not found")>>,
          err |-> ""]
    ELSE LET old == tables.inventory[key] IN
         [db |-> [tables EXCEPT !.inventory[key] =
                    [op_stock   |-> Coalesce(body.op_stock, old.op_stock),
                     avl_stock  |-> Coalesce(body.avl_stock, old.avl_stock),
                     transit    |-> Coalesce(body.transit, old.transit),
                     billing    |-> Coalesce(body.billing, old.billing),
                     month_plan |-> Coalesce(body.month_plan, old.month_plan)]],
          events |-> <<Response(200, "success")>>, err |-> ""]

(***************************************************************************)
(* routes/auth.js: POST /login                                             *)
(***************************************************************************)

\* no token issued
NoToken == [id |-> 0, username |-> Undefined, role |-> Undefined,
            fullName |-> Undefined]

\* the login handler without its honey_pot field check
LoginHandlerNoHoneyPot(body, failAt, clock, tables) ==
    IF ~Truthy(body.username) \/ ~Truthy(body.password)
    THEN [db |-> tables,
          events |-> <<Response(400, "Username and password are required")>>,
          err |-> "", token |-> NoToken]
    ELSE IF failAt = 1
    THEN [db |-> tables, events |-> <<Response(500, "Internal server error")>>,
          err |-> "connection terminated unexpectedly", token |-> NoToken]
    ELSE IF body.username \notin DOMAIN tables.users
    THEN [db |-> tables, events |-> <<Response(401, "Invalid username or password")>>,
          err |-> "", token |-> NoToken]
    ELSE IF ~BcryptCompare(body.password, tables.users[body.username].password)
    THEN [db |-> tables, events |-> <<Response(401, "Invalid username or password")>>,
          err |-> "", token |-> NoToken]
    ELSE IF failAt = 2
    THEN [db |-> tables, events |-> <<Response(500, "Internal server error")>>,
          err |-> "connection terminated unexpectedly", token |-> NoToken]
    ELSE [db |-> [tables EXCEPT !.users[body.username].last_login = clock],
          events |-> <<Response(200, "token")>>, err |-> "",
          \* jwt.sign({ id, username, role, fullName }, secret, { expiresIn: '24h' })
          token |-> [id |-> tables.users[body.username].id,
                     username |-> body.username,
                     role |-> tables.users[body.username].role,
                     fullName |-> tables.users[body.username].full_name]]

\* failAt: which of the handler's queries rejects (0: none)
LoginHandler(body, failAt, clock, tables) ==
    IF Truthy(body.honey_pot)
    THEN [db |-> tables, events |-> <<Response(401, "Invalid username or password")>>,
          err |-> "", token |-> NoToken]
    ELSE IF ~Truthy(body.username) \/ ~Truthy(body.password)
    THEN [db |-> tables,
          events |-> <<Response(400, "Username and password are required")>>,
          err |-> "", token |-> NoToken]
    ELSE IF failAt = 1
    THEN [db |-> tables, events |-> <<Response(500, "Internal server error")>>,
          err |-> "connection terminated unexpectedly", token |-> NoToken]
    ELSE IF body.username \notin DOMAIN tables.users
    THEN [db |-> tables, events |-> <<Response(401, "Invalid username or password")>>,
          err |-> "", token |-> NoToken]
    ELSE IF ~BcryptCompare(body.password, tables.users[body.username].password)
    THEN [db |-> tables, events |-> <<Response(401, "Invalid username or password")>>,
          err |-> "", token |-> NoToken]
    ELSE IF failAt = 2
    THEN [db |-> tables, events |-> <<Response(500, "Internal server error")>>,
          err |-> "connection terminated unexpectedly", token |-> NoToken]
    ELSE [db |-> [tables EXCEPT !.users[body.username].last_login = clock],
          events |-> <<Response(200, "token")>>, err |-> "",
          \* jwt.sign({ id, username, role, fullName }, secret, { expiresIn: '24h' })
          token |-> [id |-> tables.users[body.username].id,
                     username |-> body.username,
                     role |-> tables.users[body.username].role,
                     fullName |-> tables.users[body.username].full_name]]

\* the users row with a given id, as a set of keys
UserById(tables, id) == { u \in DOMAIN tables.users : tables.users[u].id = id }

\* the change-password handler without its bcrypt.compare step
ChangePasswordHandlerNoCompare(body, userId, failAt, tables) ==
    IF ~Truthy(body.currentPassword) \/ ~Truthy(body.newPassword)
    THEN [db |-> tables,
          events |-> <<Response(400, "Current password and new password are required")>>,
          err |-> ""]
    ELSE IF failAt = 1
    THEN [db |-> tables, events |-> <<Response(500, "Internal server error")>>,
          err |-> "connection terminated unexpectedly"]
    ELSE IF UserById(tables, userId) = {}
    THEN [db |-> tables, events |-> <<Response(404, "User not found")>>, err |-> ""]
    ELSE LET u == CHOOSE x \in UserById(tables, userId) : TRUE IN
         IF failAt = 2
         THEN [db |-> tables, events |-> <<Response(500, "Internal server error")>>,
               err |-> "connection terminated unexpectedly"]
         ELSE [db |-> [tables EXCEPT !.users[u].password = BcryptHash(body.newPassword)],
               events |-> <<Response(200, "Password changed successfully")>>,
               err |-> ""]

\* the handler of POST /api/auth/change-password after authenticateToken;
\* userId is req.user.id, failAt the query that rejects (0: none)
ChangePasswordHandler(body, userId, failAt, tables) ==
    IF ~Truthy(body.currentPassword) \/ ~Truthy(body.newPassword)
    THEN [db |-> tables,
          events |-> <<Response(400, "Current password and new password are required")>>,
          err |-> ""]
    ELSE IF failAt = 1
    THEN [db |-> tables, events |-> <<Response(500, "Internal server error")>>,
          err |-> "connection terminated unexpectedly"]
    ELSE IF UserById(tables, userId) = {}
    THEN [db |-> tables, events |-> <<Response(404, "User not found")>>, err |-> ""]
    ELSE LET u == CHOOSE x \in UserById(tables, userId) : TRUE IN
         IF ~BcryptCompare(body.currentPassword, tables.users[u].password)
         THEN [db |-> tables,
               events |-> <<Response(401, "Current password is incorrect")>>,
               err |-> ""]
         ELSE IF failAt = 2
         THEN [db |-> tables, events |-> <<Response(500, "Internal server error")>>,
               err |-> "connection terminated unexpectedly"]
         ELSE [db |-> [tables EXCEPT !.users[u].password = BcryptHash(body.newPassword)],
               events |-> <<Response(200, "Password changed successfully")>>,
               err |-> ""]

(***************************************************************************)
(* scripts/import-csv-sales.js                                             *)
(***************************************************************************)

\* safeParseFloat(value, defaultValue), in tenths
SafeParseFloat(cell, defaultValue) ==
    IF ~Truthy(cell) THEN defaultValue
    ELSE IF ParseFloat(cell).nan THEN defaultValue ELSE ParseFloat(cell).tenths

\* safeParseInt(value, defaultValue)
SafeParseInt(cell, defaultValue) ==
    IF ~Truthy(cell) THEN defaultValue
    ELSE IF ParseInt(cell).nan THEN defaultValue ELSE ParseInt(cell).tenths \div 10

\* the product importCSVSalesData builds from a row
CsvProduct(row) ==
    LET tonnage == SafeParseFloat(row.Tonnage, 10)
        star == SafeParseInt(row.StarRating, 3)
        technology == CellOr(row.Technology, "Non Inv")
    IN  [tonnage |-> tonnage, star |-> star, technology |-> technology,
         price |-> BasePrice(tonnage, star, technology), factory_stock |-> 0]

\* the inventory record importCSVSalesData simulates; rnd is Math.random() in
\* tenths, one value standing for every draw of a run
CsvSimulatedInventory(billing, rnd) ==
    LET monthPlan == (billing * (90 + 4 * rnd) + 50) \div 100
        availStock == (monthPlan * (10 + 8 * rnd) + 50) \div 100
        transit == (monthPlan * (50 + 15 * rnd) + 500) \div 1000
    IN  [op_stock |-> availStock + billing + 10 * rnd, avl_stock |-> availStock,
         transit |-> transit, billing |-> billing, month_plan |-> monthPlan]

\* the branch row of both scripts
ScriptBranch(name, rnd) ==
    [state |-> GetStateForBranch(name), market_share |-> rnd + 15,
     penetration |-> 2 * rnd + 65]

\* the transaction of importCSVSalesData: BEGIN .. COMMIT
CsvTransaction(data, rnd, run) ==
    LET branches == FilterSeq(Truthy, Dedupe(MapSeq(RowBranch, data)))
        codes == Dedupe(FilterSeq(Truthy, MapSeq(RowItemCode, data)))
        BranchInsert(name) == Statement("insertBranch", name, ScriptBranch(name, rnd))
        ProductUpsert(code) ==
            Statement("upsertProduct", code, CsvProduct(FirstRowOf(data, code)))
        r1 == QueryAll(run, <<Plain("begin"), Plain("truncate"), Plain("insertUsers")>>)
        r2 == QueryAll(QueryAll(r1, MapSeq(BranchInsert, branches)),
                       MapSeq(ProductUpsert, codes))
        r3 == QueryAll(r2, <<Plain("select"), Plain("select")>>)
        productMap == DOMAIN r3.t.products
        branchMap == DOMAIN r3.t.branches
        Sold(row) == /\ Truthy(row.ItemCode) /\ Truthy(row.Branch)
                     /\ SafeParseFloat(row.SalesQty, 0) > 0
        sold == FilterSeq(Sold, data)
        Pair(row) == <<row.ItemCode, row.Branch>>
        \* the object key `${itemCode}-${branchName}` of each record
        keys == Dedupe(MapSeq(InventoryKey, sold))
        PairOf(key) ==
            Pair(sold[CHOOSE i \in 1..Len(sold) :
                        /\ InventoryKey(sold[i]) = key
                        /\ \A j \in 1..(i - 1) : InventoryKey(sold[j]) # key])
        TotalSales(key) ==
            LET OfKey(row) == InventoryKey(row) = key
                Qty(row) == SafeParseFloat(row.SalesQty, 0)
            IN  SumSeq(MapSeq(Qty, FilterSeq(OfKey, sold)))
        Mapped(key) == PairOf(key)[1] \in productMap /\ PairOf(key)[2] \in branchMap
        Upsert(key) ==
            Statement("upsertInventorySet", PairOf(key),
                      CsvSimulatedInventory(RoundTenths(TotalSales(key)), rnd))
        r4 == QueryAll(r3, MapSeq(Upsert, FilterSeq(Mapped, keys)))
    IN  Query(r4, Plain("commit"))

\* importCSVSalesData.  readable: FinalSales.csv can be read; fault as for the
\* upload handler, the summary SELECT being the statement after COMMIT.
ImportCSVSalesData(readable, data, rnd, fault, tables) ==
    IF ~readable \/ fault.connect
    THEN [db |-> tables, txn |-> NoTxn]
    ELSE LET r == CsvTransaction(data, rnd, StartRun(tables, fault.failAt))
             t == [NoTxn EXCEPT !.connected = TRUE, !.began = r.n > 1 \/ ~r.failed,
                                !.released = TRUE]
         IN  IF r.failed
             THEN [db |-> Rollback(tables, r.t),
                   txn |-> [t EXCEPT !.failed = TRUE,
                              !.rollback = IF fault.rollback THEN "failed" ELSE "ok"]]
             ELSE LET summary == Query(r, Plain("select")) IN
                  IF summary.failed
                  THEN \* the catch block's ROLLBACK finds no open transaction
                       [db |-> Commit(tables, r.t),
                        txn |-> [t EXCEPT !.committed = TRUE, !.failed = TRUE,
                                   !.rollback = IF fault.rollback THEN "failed" ELSE "ok"]]
                  ELSE [db |-> Commit(tables, r.t),
                        txn |-> [t EXCEPT !.committed = TRUE, !.resolved = TRUE]]

(***************************************************************************)
(* scripts/import-excel.js                                                 *)
(***************************************************************************)

ParseTonnage(material) ==
    IF Includes(material, "RL50") THEN 15
    ELSE IF Includes(material, "RHT50") THEN 15 ELSE 10

ParseStar(material) ==
    IF Includes(material, "UV16V3") THEN 3
    ELSE IF Includes(material, "UV16V") THEN 5 ELSE 3

ParseTechnology(material) ==
    IF Includes(material, "RHT") THEN "H&C Inv"
    ELSE IF Includes(material, "RL") THEN "Non Inv" ELSE "Non Inv"

GeneratePrice(material) ==
    BasePrice(ParseTonnage(material), ParseStar(material), ParseTechnology(material))

\* the product importExcelData builds from a row
ExcelProduct(row) ==
    [tonnage |-> ParseTonnage(row.ItemCode), star |-> ParseStar(row.ItemCode),
     technology |-> ParseTechnology(row.ItemCode),
     price |-> GeneratePrice(row.ItemCode),
     factory_stock |-> OrDefault(ParseInt(row.FactoryStock), 0) \div 10]

\* parseInt(row['Op Stock']) || 0
ExcelStock(cell) == OrDefault(ParseInt(cell), 0) \div 10

\* importExcelData: every statement goes to pgPool.query on its own, outside
\* any transaction, so each one that succeeds is committed at once
ImportExcelData(readable, data, rnd, fault, tables) ==
    IF ~readable THEN [db |-> tables, txn |-> NoTxn]
    ELSE
    LET branches == FilterSeq(Truthy, Dedupe(MapSeq(RowBranch, data)))
        codes == Dedupe(FilterSeq(Truthy, MapSeq(RowItemCode, data)))
        BranchInsert(name) == Statement("insertBranch", name, ScriptBranch(name, rnd))
        ProductUpsert(code) ==
            Statement("upsertFactoryStock", code, ExcelProduct(FirstRowOf(data, code)))
        r1 == QueryAll(StartRun(tables, fault.failAt),
                       <<Plain("truncate"), Plain("insertUsers")>>)
        r2 == QueryAll(QueryAll(r1, MapSeq(BranchInsert, branches)),
                       MapSeq(ProductUpsert, codes))
        r3 == QueryAll(r2, <<Plain("select"), Plain("select")>>)
        productMap == DOMAIN r3.t.products
        branchMap == DOMAIN r3.t.branches
        Mapped(row) == /\ Truthy(row.ItemCode) /\ Truthy(row.Branch)
                       /\ row.ItemCode \in productMap /\ row.Branch \in branchMap
        Upsert(row) ==
            Statement("upsertInventorySet", <<row.ItemCode, row.Branch>>,
                      [op_stock |-> ExcelStock(row.OpStock),
                       avl_stock |-> ExcelStock(row.AvlStock),
                       transit |-> ExcelStock(row.Transit),
                       billing |-> ExcelStock(row.Billing),
                       month_plan |-> ExcelStock(row.MonthPlan)])
        r4 == QueryAll(r3, MapSeq(Upsert, FilterSeq(Mapped, data)))
        r5 == Query(r4, Plain("select"))
    IN  [db |-> r5.t,
         txn |-> [NoTxn EXCEPT !.failed = r5.failed, !.resolved = ~r5.failed]]

(***************************************************************************)
(* Inputs                                                                  *)
(***************************************************************************)

\* the longest sheet, in rows
MaxRows == 2

\* no stock column of the inventory table grows beyond this
MaxStock == 8

\* the latest statement of a run that a fault makes fail
MaxFailAt == 7

\* the rows of a FinalSales sheet
SalesRows ==
    { SalesRow("RL50", "Chennai", "3", "1.5", "5", "Inv"),
      SalesRow("RL50", "Chennai", "3", Undefined, Undefined, Undefined) }

\* rows of a FinalSales sheet with a '-' in the item code or the branch name
DashRows ==
    { SalesRow("RL50-Pune", "Chennai", "3", "1.5", "5", "Inv"),
      SalesRow("RL50", "Pune-Chennai", "2", "1.5", "5", "Inv") }
\* the rows of an inventory sheet
InventoryRows ==
    { InventoryRow("RL50", "Chennai", "5", "4", "1", "3", "5") }

SeqsUpTo(S, n) == UNION { [1..k -> S] : k \in 0..n }

\* what xlsx.read and sheet_to_json give for the uploaded file
Sheets == SeqsUpTo(SalesRows, MaxRows) \cup SeqsUpTo(InventoryRows, MaxRows)

File(data) == [present |-> TRUE, parses |-> TRUE, data |-> data]
NoFile == [present |-> FALSE, parses |-> FALSE, data |-> <<>>]
BadFile == [present |-> TRUE, parses |-> FALSE, data |-> <<>>]
Files == {NoFile, BadFile} \cup { File(d) : d \in Sheets }

Faults ==
    {NoFault, [NoFault EXCEPT !.connect = TRUE]}
    \cup { [connect |-> FALSE, failAt |-> k, rollback |-> rb] :
              k \in 1..MaxFailAt, rb \in BOOLEAN }

\* the Authorization headers of the requests to the data routes
DataHeaders == {Undefined, "Bearer tSmart", "Bearer tNormal", "Bearer tNoRole"}

ItemCodes == {"RL50", "RL50-Pune"}
BranchNames == {"Chennai", "Pune"}

\* the row the sheets of the upload route fill, and one that is never there
PutKeys == {<<"RL50", "Chennai">>, <<"RL50-Pune", "Pune">>}
NullBody == [op_stock |-> SqlNull, avl_stock |-> SqlNull, transit |-> SqlNull,
             billing |-> SqlNull, month_plan |-> SqlNull]
PutBodies == {NullBody, [NullBody EXCEPT !.avl_stock = 0, !.month_plan = 6]}
\* bodies that between them give every column
StockBodies ==
    PutBodies \cup {[NullBody EXCEPT !.op_stock = 7, !.transit = 2, !.billing = 0]}
\* a sales sheet and an inventory sheet of two branches
StockFiles ==
    { File(<<SalesRow("RL50", "Chennai", "3", "1.5", "5", "Inv"),
             SalesRow("RL50", "Pune", "2", "1.5", "5", "Inv")>>),
      File(<<InventoryRow("RL50", "Chennai", "5", "4", "1", "3", "5"),
             InventoryRow("RL50", "Pune", "2", "2", "0", "1", "3")>>) }

LoginBodies ==
    { [username |-> u, password |-> pw, honey_pot |-> hp] :
        u \in {"smart", "nobody", Undefined},
        pw \in {"Daikin@Hansei2025!", "guess", Undefined},
        hp \in {Undefined, "bot"} }

\* Math.random() in tenths
RandomDraws == {0, 9}

StockBounded(tables) ==
    \A k \in DOMAIN tables.inventory :
        LET r == tables.inventory[k] IN
        /\ r.op_stock <= MaxStock /\ r.avl_stock <= MaxStock
        /\ r.transit <= MaxStock /\ r.billing <= MaxStock
        /\ r.month_plan <= MaxStock

(***************************************************************************)
(* The server and the scripts as a state machine                           *)
(***************************************************************************)

Responses(evs) ==
    LET IsResponse(e) == e.kind = "res" IN FilterSeq(IsResponse, evs)

\* the tables after an import of an empty sheet: the users and nothing else
InitialDb == [EmptyDb EXCEPT !.users = DefaultUsers]

\* a request of which nothing more is recorded, and a handler that issued no
\* token, wrote no log record, returned no rows and passed no middleware of
\* app.js (json: the text of a body that app.js itself sent)
NoReq == [kind |-> "none"]
NoOut == [token |-> NoToken, saved |-> "none", rows |-> EmptyTable, reached |-> {},
         json |-> ""]

\* the token the request that just ended has given up: the one presented to a
\* logout or to a password change that succeeded
DiscardedBy ==
    IF /\ route \in {"logout", "changePassword"} /\ handled
       /\ Len(events) = 1 /\ events[1].status = 200
    THEN HeaderToken(hdr) ELSE discarded

Init ==
    /\ now = 0
    /\ at = 0
    /\ route = "none"
    /\ hdr = Undefined
    /\ authEvents = <<>>
    /\ events = <<>>
    /\ reqUser = NoUser
    /\ handled = FALSE
    /\ db = InitialDb
    /\ pre = InitialDb
    /\ txn = NoTxn
    /\ lastFile = <<>>
    /\ repeated = FALSE
    /\ env = "production"
    /\ errs = ""
    /\ message = ""
    /\ reply = "none"
    /\ req = NoReq
    /\ out = NoOut
    /\ hits = 0
    /\ discarded = ""
    /\ file_uploads = EmptyTable
    /\ committedFor = {}
    /\ checkedOut = 0
    /\ procs = EmptyTable

\* POST /api/upload: authenticateToken, authorizeRole('smart_user'),
\* upload.single('file') and the handler
UploadOf(files, faults) ==
    \E h \in DataHeaders :
        LET a == AuthenticateToken(h, now)
            z == IF HasNext(a.events)
                 THEN AuthorizeRole("smart_user", a.user) ELSE <<>>
        IN  /\ route' = "upload"
            /\ at' = now
            /\ hdr' = h
            /\ authEvents' = a.events
            /\ reqUser' = a.user
            /\ pre' = db
            /\ req' = NoReq
            /\ out' = NoOut
            /\ discarded' = DiscardedBy
            /\ UNCHANGED <<file_uploads, committedFor, procs, now, env, message,
                           reply, hits>>
            /\ IF HasNext(z)
               THEN \E file \in files, fault \in faults :
                    \E r \in {UploadHandler(file, fault, db)} :
                      /\ StockBounded(r.db)
                      /\ handled' = TRUE
                      /\ db' = r.db
                      /\ events' = Responses(a.events \o z) \o r.events
                      /\ txn' = r.txn
                      /\ checkedOut' = checkedOut + Held(r.txn)
                      /\ errs' = r.err
                      /\ lastFile' = IF r.txn.committed THEN file.data ELSE <<>>
                      /\ repeated' = (r.txn.committed /\ lastFile = file.data)
               ELSE /\ handled' = FALSE
                    /\ db' = db
                    /\ events' = Responses(a.events \o z)
                    /\ txn' = NoTxn
                    /\ checkedOut' = checkedOut
                    /\ errs' = ""
                    /\ lastFile' = <<>>
                    /\ repeated' = FALSE

\* POST /api/upload
Upload == UploadOf(Files, Faults)

\* PUT /api/sales/inventory/:productId/:branchId
UpdateInventoryWith(keys, bodies) ==
    \E h \in DataHeaders :
        LET a == AuthenticateToken(h, now) IN
        /\ route' = "updateInventory"
        /\ at' = now
        /\ hdr' = h
        /\ authEvents' = a.events
        /\ reqUser' = a.user
        /\ pre' = db
        /\ txn' = NoTxn
        /\ lastFile' = <<>>
        /\ repeated' = FALSE
        /\ out' = NoOut
        /\ discarded' = DiscardedBy
        /\ UNCHANGED <<inFlight, now, env, message, reply, hits>>
        /\ IF HasNext(a.events)
           THEN \E key \in keys, body \in bodies, queryFails \in BOOLEAN :
                  LET r == UpdateInventoryHandler(a.user, key, body, queryFails, db)
                  IN  /\ handled' = TRUE
                      /\ req' = [kind |-> "put", key |-> key, body |-> body]
                      /\ db' = r.db
                      /\ events' = Responses(a.events) \o r.events
                      /\ errs' = r.err
           ELSE /\ handled' = FALSE
                /\ req' = NoReq
                /\ db' = db
                /\ events' = Responses(a.events)
                /\ errs' = ""

UpdateInventory == UpdateInventoryWith(PutKeys, PutBodies)

\* POST /api/auth/login
Login ==
    \E body \in LoginBodies, failAt \in 0..2 :
        LET r == LoginHandler(body, failAt, now, db) IN
        /\ route' = "login"
        /\ at' = now
        /\ hdr' = Undefined
        /\ authEvents' = <<>>
        /\ reqUser' = NoUser
        /\ handled' = TRUE
        /\ pre' = db
        /\ db' = r.db
        /\ events' = r.events
        /\ errs' = r.err
        /\ txn' = NoTxn
        /\ lastFile' = <<>>
        /\ repeated' = FALSE
        /\ req' = [kind |-> "login", body |-> body]
        /\ out' = [NoOut EXCEPT !.token = r.token]
        /\ discarded' = DiscardedBy
        /\ UNCHANGED <<inFlight, now, env, message, reply, hits>>

Next == Upload \/ UpdateInventory

Spec == Init /\ [][Next]_vars

\* stock sheets uploaded without a fault, and inventory rows updated
NextInventory == UploadOf(StockFiles, {NoFault}) \/ UpdateInventoryWith(ItemCodes \X BranchNames, StockBodies)

SpecInventory == Init /\ [][NextInventory]_vars

\* node scripts/import-csv-sales.js and node scripts/import-excel.js
ScriptRan(name, r, data) ==
    /\ route' = name
    /\ at' = now
    /\ hdr' = Undefined
    /\ authEvents' = <<>>
    /\ reqUser' = NoUser
    /\ handled' = TRUE
    /\ pre' = db
    /\ db' = r.db
    /\ events' = <<>>
    /\ errs' = ""
    /\ txn' = r.txn
    /\ checkedOut' = checkedOut + Held(r.txn)
    /\ lastFile' = IF r.txn.resolved THEN data ELSE <<>>
    /\ repeated' = FALSE
    /\ UNCHANGED <<file_uploads, committedFor, procs, now, env, message, reply, req,
                   out, hits, discarded>>

ImportCSVOf(rows, faults) ==
    \E readable \in BOOLEAN, data \in SeqsUpTo(rows, MaxRows),
       rnd \in RandomDraws, fault \in faults :
        \E r \in {ImportCSVSalesData(readable, data, rnd, fault, db)} :
            ScriptRan("importCSV", r, data)

ImportCSV == ImportCSVOf(SalesRows, Faults)

ImportExcel ==
    \E readable \in BOOLEAN, data \in SeqsUpTo(SalesRows, MaxRows),
       rnd \in RandomDraws, fault \in Faults :
        \E r \in {ImportExcelData(readable, data, rnd, fault, db)} :
            ScriptRan("importExcel", r, data)

NextScripts == ImportCSV \/ ImportExcel

SpecScripts == Init /\ [][NextScripts]_vars

\* sales sheets whose item codes and branch names hold a '-', imported by the
\* upload route and by the script without a fault
NextSales ==
    \/ UploadOf({ File(d) : d \in SeqsUpTo(DashRows, MaxRows) }, {NoFault})
    \/ ImportCSVOf(DashRows, {NoFault})

SpecSales == Init /\ [][NextSales]_vars

(***************************************************************************)
(* app.js: the error-handling middleware.  It receives what a middleware   *)
(* passed to next(err): express.json() rejecting a body, multer rejecting  *)
(* a file.                                                                 *)
(***************************************************************************)

\* an error object: err.status (0 when it has none), err.message, err.stack
ErrorObject(status, msg) ==
    [status |-> status, message |-> msg, stack |-> "Error: " \o msg \o " at app.js"]

ErrorHandler(err, nodeEnv) ==
    LET isDevelopment == nodeEnv = "development"
        status == IF err.status # 0 THEN err.status ELSE 500
    IN  ResponseWith(status,
                     IF isDevelopment THEN err.message ELSE "Internal server error",
                     IF isDevelopment THEN err.stack ELSE "")

MiddlewareErrors ==
    { ErrorObject(400, "Unexpected token } in JSON at position 12"),
      ErrorObject(0, "Unexpected field") }

NodeEnvs == {"production", "development", Undefined}

\* a request that a body parser refuses: the error handler answers it
BodyRejected ==
    \E err \in MiddlewareErrors, nodeEnv \in NodeEnvs :
        /\ route' = "errorHandler"
        /\ at' = now
        /\ hdr' = Undefined
        /\ authEvents' = <<>>
        /\ reqUser' = NoUser
        /\ handled' = FALSE
        /\ pre' = db
        /\ db' = db
        /\ events' = <<ErrorHandler(err, nodeEnv)>>
        /\ errs' = err.message
        /\ env' = nodeEnv
        /\ txn' = NoTxn
        /\ lastFile' = <<>>
        /\ repeated' = FALSE
        /\ UNCHANGED <<inFlight, now, message, reply, req, out, hits, discarded>>

\* the requests whose handlers await PostgreSQL
NextServer == Upload \/ Login

SpecServer == Init /\ [][NextServer]_vars

\* the requests that end in an error response
NextErrors == Upload \/ BodyRejected

SpecErrors == Init /\ [][NextErrors]_vars

(***************************************************************************)
(* The routes of routes/auth.js that do nothing but sit behind             *)
(* authenticateToken, and the clock                                        *)
(***************************************************************************)

AuthHeaders ==
    {Undefined, "", "Bearer", "Bearer ", "Bearer  tSmart", "Bearer tSmart x"}
    \cup { scheme \o " " \o t : scheme \in {"Bearer", "Basic", ""},
                               t \in SignedTokens \cup {"garbage"} }

\* a route whose handler answers 200 whatever the request holds
Guarded(name, body) ==
    \E h \in AuthHeaders :
        LET a == AuthenticateToken(h, now) IN
        /\ route' = name
        /\ at' = now
        /\ hdr' = h
        /\ authEvents' = a.events
        /\ reqUser' = a.user
        /\ handled' = HasNext(a.events)
        /\ events' = Responses(a.events)
                     \o (IF HasNext(a.events) THEN <<Response(200, body)>> ELSE <<>>)
        /\ pre' = db
        /\ errs' = ""
        /\ txn' = NoTxn
        /\ lastFile' = <<>>
        /\ repeated' = FALSE
        /\ req' = NoReq
        /\ out' = NoOut
        /\ discarded' = DiscardedBy
        /\ UNCHANGED <<inFlight, now, db, env, message, reply, hits>>

\* GET /api/auth/verify
Verify == Guarded("verify", "valid")

\* POST /api/auth/logout
Logout == Guarded("logout", "Logged out successfully")

Tick ==
    /\ now < MaxClock
    /\ now' = now + ClockStep
    /\ UNCHANGED <<inFlight, at, route, hdr, authEvents, events, reqUser, handled, db, pre,
                   txn, lastFile, repeated, env, errs, message, reply, req, out,
                   hits, discarded>>

\* the passwords sent to change-password (Undefined: the field is missing)
Passwords == {Undefined, "Daikin@Hansei2025!", "New@2026"}

ChangeBodies ==
    { [currentPassword |-> c, newPassword |-> n] : c \in Passwords, n \in Passwords }

\* POST /api/auth/change-password
ChangePassword ==
    \E h \in {Undefined, "Bearer tSmart", "Bearer tNoRole", "Bearer tOld"},
       body \in ChangeBodies, failAt \in 0..2 :
        \E a \in {AuthenticateToken(h, now)} :
        \E r \in {ChangePasswordHandler(body, a.user.id, failAt, db)} :
            /\ HasNext(a.events) \/ (failAt = 0 /\ body.newPassword = "New@2026")
            /\ route' = "changePassword"
            /\ at' = now
            /\ hdr' = h
            /\ authEvents' = a.events
            /\ reqUser' = a.user
            /\ handled' = HasNext(a.events)
            /\ events' = Responses(a.events)
                         \o (IF HasNext(a.events) THEN r.events ELSE <<>>)
            /\ errs' = IF HasNext(a.events) THEN r.err ELSE ""
            /\ pre' = db
            /\ db' = IF HasNext(a.events) THEN r.db ELSE db
            /\ req' = [kind |-> "changePassword", body |-> body]
            /\ out' = NoOut
            /\ discarded' = DiscardedBy
            /\ txn' = NoTxn
            /\ lastFile' = <<>>
            /\ repeated' = FALSE
            /\ UNCHANGED <<inFlight, now, env, message, reply, hits>>

NextAuth == Verify \/ Logout \/ Login \/ Tick

SpecAuth == Init /\ [][NextAuth]_vars

\* the requests that make a client give up its token, and the clock
NextPassword == Verify \/ Logout \/ ChangePassword \/ Tick

SpecPassword == Init /\ [][NextPassword]_vars

(***************************************************************************)
(* routes/chatbot.js                                                       *)
(***************************************************************************)

UpperCase == "ABCDEFGHIJKLMNOPQRSTUVWXYZ"
LowerCase == "abcdefghijklmnopqrstuvwxyz"

LowerChar(c) ==
    IF \E i \in 1..Len(UpperCase) : SubSeq(UpperCase, i, i) = c
    THEN LET i == CHOOSE k \in 1..Len(UpperCase) : SubSeq(UpperCase, k, k) = c
         IN  SubSeq(LowerCase, i, i)
    ELSE c

\* String.prototype.toLowerCase
RECURSIVE ToLowerCase(_)
ToLowerCase(str) ==
    IF str = "" THEN ""
    ELSE LowerChar(SubSeq(str, 1, 1)) \o ToLowerCase(SubSeq(str, 2, Len(str)))

\* processQuery with the products branch moved in front of the greeting branch
ProcessQueryProductsFirst(query) ==
    IF Includes(query, "products") \/ Includes(query, "models") THEN "products"
    ELSE IF Includes(query, "hello") \/ Includes(query, "hi") THEN "greeting"
    ELSE IF Includes(query, "help") \/ Includes(query, "command") THEN "help"
    ELSE IF Includes(query, "total sales") \/ Includes(query, "revenue")
    THEN "total sales"
    ELSE IF Includes(query, "total stock") \/ Includes(query, "inventory")
    THEN "total stock"
    ELSE IF Includes(query, "branch") \/ Includes(query, "cities") THEN "branch"
    ELSE IF Includes(query, "chennai") THEN "chennai"
    ELSE IF Includes(query, "bangalore") THEN "bangalore"
    ELSE IF Includes(query, "critical") \/ Includes(query, "alert") THEN "critical"
    ELSE IF Includes(query, "plan achievement") \/ Includes(query, "performance")
    THEN "plan achievement"
    ELSE IF Includes(query, "top selling") \/ Includes(query, "best selling")
    THEN "top selling"
    ELSE IF Includes(query, "inverter") \/ Includes(query, "technology")
    THEN "technology"
    ELSE IF Includes(query, "low stock") \/ Includes(query, "shortage")
    THEN "low stock"
    ELSE IF Includes(query, "hansei") \/ Includes(query, "who are you") THEN "about"
    ELSE "default"

\* processQuery: the branch that answers the query, and whether the branch
\* queries PostgreSQL
ProcessQuery(query) ==
    IF Includes(query, "hello") \/ Includes(query, "hi") THEN "greeting"
    ELSE IF Includes(query, "help") \/ Includes(query, "command") THEN "help"
    ELSE IF Includes(query, "total sales") \/ Includes(query, "revenue")
    THEN "total sales"
    ELSE IF Includes(query, "total stock") \/ Includes(query, "inventory")
    THEN "total stock"
    ELSE IF Includes(query, "products") \/ Includes(query, "models") THEN "products"
    ELSE IF Includes(query, "branch") \/ Includes(query, "cities") THEN "branch"
    ELSE IF Includes(query, "chennai") THEN "chennai"
    ELSE IF Includes(query, "bangalore") THEN "bangalore"
    ELSE IF Includes(query, "critical") \/ Includes(query, "alert") THEN "critical"
    ELSE IF Includes(query, "plan achievement") \/ Includes(query, "performance")
    THEN "plan achievement"
    ELSE IF Includes(query, "top selling") \/ Includes(query, "best selling")
    THEN "top selling"
    ELSE IF Includes(query, "inverter") \/ Includes(query, "technology")
    THEN "technology"
    ELSE IF Includes(query, "low stock") \/ Includes(query, "shortage")
    THEN "low stock"
    ELSE IF Includes(query, "hansei") \/ Includes(query, "who are you") THEN "about"
    ELSE "default"

\* the branches of processQuery that return without a query to PostgreSQL
StaticReplies == {"greeting", "help", "about", "default"}

\* the handler with the ChatLog save inside the outer try block: a save that
\* rejects lands in the outer catch
ChatQueryHandlerSaveInTry(msg, queryFails, saveFails) ==
    IF ~Truthy(msg)
    THEN [events |-> <<Response(400, "Message is required")>>, reply |-> "none",
          err |-> "", saved |-> "none"]
    ELSE LET response == ProcessQuery(ToLowerCase(msg)) IN
         IF (queryFails /\ response \notin StaticReplies) \/ saveFails
         THEN [events |-> <<Response(500, "Failed to process query")>>,
               reply |-> "none", err |-> "connection terminated unexpectedly",
               saved |-> IF saveFails THEN "failed" ELSE "none"]
         ELSE [events |-> <<Response(200, response)>>, reply |-> response,
               err |-> "", saved |-> "saved"]

\* the handler of POST /api/chatbot/query after authenticateToken.
\* queryFails: the branch's pgPool.query rejects; saveFails: ChatLog.save rejects
ChatQueryHandler(msg, queryFails, saveFails) ==
    IF ~Truthy(msg)
    THEN [events |-> <<Response(400, "Message is required")>>, reply |-> "none",
          err |-> "", saved |-> "none"]
    ELSE LET response == ProcessQuery(ToLowerCase(msg)) IN
         IF queryFails /\ response \notin StaticReplies
         THEN [events |-> <<Response(500, "Failed to process query")>>,
               reply |-> "none", err |-> "connection terminated unexpectedly",
               saved |-> "none"]
         ELSE \* try { await new ChatLog(...).save() } catch (dbError) { log it }
              [events |-> <<Response(200, response)>>, reply |-> response,
               err |-> "", saved |-> IF saveFails THEN "failed" ELSE "saved"]

\* the keywords of the decision list, group by group in source order
KeywordGroups ==
    << <<"greeting", {"hello", "hi"}>>,
       <<"help", {"help", "command"}>>,
       <<"total sales", {"total sales", "revenue"}>>,
       <<"total stock", {"total stock", "inventory"}>>,
       <<"products", {"products", "models"}>>,
       <<"branch", {"branch", "cities"}>>,
       <<"chennai", {"chennai"}>>,
       <<"bangalore", {"bangalore"}>>,
       <<"critical", {"critical", "alert"}>>,
       <<"plan achievement", {"plan achievement", "performance"}>>,
       <<"top selling", {"top selling", "best selling"}>>,
       <<"technology", {"inverter", "technology"}>>,
       <<"low stock", {"low stock", "shortage"}>>,
       <<"about", {"hansei", "who are you"}>> >>

Keywords == UNION { KeywordGroups[g][2] : g \in 1..Len(KeywordGroups) }

\* the example questions the help reply lists
HelpQuestions ==
    {"What is the total stock?", "How many products are there?",
     "Tell me about branch performance", "What are the critical alerts?",
     "Show me the top selling products", "What's the plan achievement rate?"}

\* the messages sent to the chatbot: every keyword alone, pairs of keywords,
\* the same in other letter case, the help reply's examples, and messages
\* without any keyword
Messages ==
    Keywords \cup HelpQuestions
    \cup { a \o " and " \o b : a \in {"models", "alert"},
                                 b \in Keywords }
    \cup {"Hello", "HELP", "Total Sales", "REVENUE and Models", "Top Selling",
          "Low Stock in Cochin", "WHO ARE YOU", "", Undefined,
          "sales", "stock", "what can you do", "Good morning", "thanks"}

ChatQuery ==
    \E h \in {"Bearer tSmart", "Bearer garbage"}, msg \in Messages,
       fault \in {"none", "query", "save"} :
        \E a \in {AuthenticateToken(h, now)},
           r \in {ChatQueryHandler(msg, fault = "query", fault = "save")} :
            /\ HasNext(a.events) \/ (msg = "hello" /\ fault = "none")
            /\ fault = "none" \/ msg \in Keywords \cup HelpQuestions \cup {""}
            /\ route' = "chatbot"
            /\ at' = now
            /\ hdr' = h
            /\ authEvents' = a.events
            /\ reqUser' = a.user
            /\ handled' = HasNext(a.events)
            /\ message' = msg
            /\ events' = Responses(a.events)
                         \o (IF HasNext(a.events) THEN r.events ELSE <<>>)
            /\ reply' = IF HasNext(a.events) THEN r.reply ELSE "none"
            /\ errs' = IF HasNext(a.events) THEN r.err ELSE ""
            /\ pre' = db
            /\ txn' = NoTxn
            /\ lastFile' = <<>>
            /\ repeated' = FALSE
            /\ req' = NoReq
            /\ out' = [NoOut EXCEPT !.saved =
                          IF HasNext(a.events) THEN r.saved ELSE "none"]
            /\ discarded' = DiscardedBy
            /\ UNCHANGED <<inFlight, now, db, env, hits>>

(***************************************************************************)
(* routes/analytics.js: GET /branch-performance                            *)
(***************************************************************************)

RECURSIVE SumOver(_, _)
\* SUM(column) over a set of rows (NULL over no rows)
SumOver(Column(_), rows) ==
    IF rows = {} THEN 0
    ELSE LET r == CHOOSE x \in rows : TRUE
         IN  Column(r) + SumOver(Column, rows \ {r})

\* the rows of the branch-performance query, by branch name: branches LEFT JOIN
\* inventory, grouped by branch.  plan_achievement is in hundredths of a percent.
BranchPerformanceRows(tables) ==
    [b \in DOMAIN tables.branches |->
        LET keys == { k \in DOMAIN tables.inventory : k[2] = b }
            Billing(k) == tables.inventory[k].billing
            Plan(k) == tables.inventory[k].month_plan
            Stock(k) == tables.inventory[k].avl_stock
            Transit(k) == tables.inventory[k].transit
            plan == SumOver(Plan, keys)
        IN  [market_share |-> tables.branches[b].market_share,
             penetration |-> tables.branches[b].penetration,
             total_sales |-> IF keys = {} THEN SqlNull ELSE SumOver(Billing, keys),
             total_plan |-> IF keys = {} THEN SqlNull ELSE plan,
             total_stock |-> IF keys = {} THEN SqlNull ELSE SumOver(Stock, keys),
             total_transit |-> IF keys = {} THEN SqlNull ELSE SumOver(Transit, keys),
             product_count |-> Cardinality(keys),
             plan_achievement |->
                 IF keys = {} \/ plan = 0 THEN SqlNull
                 ELSE (2 * SumOver(Billing, keys) * 10000 + plan) \div (2 * plan)]]

\* the handler after authenticateToken.  queryFails: pgPool.query rejects;
\* saveFails: new AnalyticsEvent(...).save() throws or rejects
BranchPerformanceHandler(queryFails, saveFails, tables) ==
    IF queryFails
    THEN [events |-> <<Response(500, "Failed to fetch branch performance")>>,
          rows |-> EmptyTable, err |-> "connection terminated unexpectedly",
          saved |-> "none"]
    ELSE \* try { await new AnalyticsEvent(...).save() } catch (dbError) { log it }
         [events |-> <<Response(200, "branchPerformance")>>,
          rows |-> BranchPerformanceRows(tables), err |-> "",
          saved |-> IF saveFails THEN "failed" ELSE "saved"]

BranchPerformance ==
    \E h \in DataHeaders, queryFails \in BOOLEAN, saveFails \in BOOLEAN :
        LET a == AuthenticateToken(h, now)
            r == BranchPerformanceHandler(queryFails, saveFails, db)
        IN  /\ HasNext(a.events) \/ (~queryFails /\ ~saveFails)
            /\ route' = "branchPerformance"
            /\ at' = now
            /\ hdr' = h
            /\ authEvents' = a.events
            /\ reqUser' = a.user
            /\ handled' = HasNext(a.events)
            /\ events' = Responses(a.events)
                         \o (IF HasNext(a.events) THEN r.events ELSE <<>>)
            /\ errs' = IF HasNext(a.events) THEN r.err ELSE ""
            /\ req' = NoReq
            /\ out' = IF HasNext(a.events)
                      THEN [NoOut EXCEPT !.saved = r.saved, !.rows = r.rows]
                      ELSE NoOut
            /\ discarded' = DiscardedBy
            /\ pre' = db
            /\ txn' = NoTxn
            /\ lastFile' = <<>>
            /\ repeated' = FALSE
            /\ message' = ""
            /\ reply' = "none"
            /\ UNCHANGED <<inFlight, now, db, env, hits>>

NextChat == ChatQuery \/ BranchPerformance

SpecChat == Init /\ [][NextChat]_vars

(***************************************************************************)
(* app.js: the middleware every request passes before the routers          *)
(***************************************************************************)

\* max: 100 requests in a window of the rate limiter
RateMax == 100

\* String.prototype.startsWith
StartsWith(s, prefix) ==
    Len(s) >= Len(prefix) /\ SubSeq(s, 1, Len(prefix)) = prefix

BlockedAgents == {"python-requests", "scrapy", "node-fetch", "wget", "curl", "postman"}

\* blockScrapers whose test leaves out toLowerCase()
BlockScrapersCaseSensitive(userAgent) ==
    IF /\ Truthy(userAgent)
       /\ \E agent \in BlockedAgents : Includes(userAgent, agent)
    THEN [events |-> <<Response(404, "Endpoint not found")>>,
          json |-> "{\"error\":\"Endpoint not found\"}"]
    ELSE [events |-> <<CallNext>>, json |-> ""]

\* blockScrapers: res.status(404).json({ error: 'Endpoint not found' }) or next()
BlockScrapers(userAgent) ==
    IF /\ Truthy(userAgent)
       /\ \E lower \in {ToLowerCase(userAgent)} :
              \E agent \in BlockedAgents : Includes(lower, agent)
    THEN [events |-> <<Response(404, "Endpoint not found")>>,
          json |-> "{\"error\":\"Endpoint not found\"}"]
    ELSE [events |-> <<CallNext>>, json |-> ""]

\* apiLimiter for the count-th request of the window
ApiLimiter(count) ==
    IF count > RateMax
    THEN [events |-> <<Response(429, "Too many requests from this IP, please try again after 15 minutes.")>>,
          json |-> "{\"error\":\"Too many requests from this IP, please try again after 15 minutes.\"}"]
    ELSE [events |-> <<CallNext>>, json |-> ""]

\* the 404 handler; variant "app" is app.js, which adds path: req.path
NotFound(variant, path) ==
    [events |-> <<ResponseWith(404, "Endpoint not found", "")>>,
     json |-> "{\"error\":{\"message\":\"Endpoint not found\",\"status\":404"
              \o (IF variant = "app" THEN ",\"path\":\"" \o path \o "\"" ELSE "")
              \o "}}"]

\* the JSON text of the error handler's response
ErrorJson(variant, err, nodeEnv) ==
    LET isDevelopment == variant # "app" \/ nodeEnv = "development"
        status == IF err.status # 0 THEN err.status ELSE 500
    IN  "{\"error\":{\"message\":\""
        \o (IF isDevelopment THEN err.message ELSE "Internal server error")
        \o "\",\"status\":" \o ToString(status)
        \o (IF variant = "app" /\ isDevelopment
            THEN ",\"stack\":\"" \o err.stack \o "\"" ELSE "")
        \o "}}"

\* app.use('/api/', ...): the mount path is matched without regard to case
UnderApi(path) == StartsWith(ToLowerCase(path), "/api/") \/ ToLowerCase(path) = "/api"

\* the route a method and path select
RouteOf(method, path) ==
    CASE method = "GET" /\ path = "/" -> "root"
      [] method = "GET" /\ ToLowerCase(path) = "/api/auth/verify" -> "verify"
      [] method = "POST" /\ ToLowerCase(path) = "/api/auth/login" -> "login"
      [] method = "GET" /\ ToLowerCase(path) = "/api/health" -> "health"
      [] OTHER -> "notFound"

LoginBody == [username |-> "smart", password |-> "Daikin@Hansei2025!",
              honey_pot |-> Undefined]

UserAgents ==
    {Undefined, "", "Mozilla/5.0", "curl/8.4.0", "PostmanRuntime/7.36.0",
     "python-requests/2.31.0", "Scrapy/2.11.0", "Wget/1.21.4", "node-fetch/1.0",
     "okhttp/4.12.0"}

\* method and path of the requests sent
Targets ==
    {<<"GET", "/">>, <<"GET", "/api/auth/verify">>, <<"POST", "/api/auth/login">>,
     <<"GET", "/api/health">>, <<"GET", "/api/nothing">>, <<"GET", "/API/Nothing">>,
     <<"OPTIONS", "/api/auth/login">>}

\* the string tests of the middleware, made once for every User-Agent, method
\* and path that is sent
ScraperTable == [ua \in UserAgents |-> BlockScrapers(ua)]
TargetTable ==
    [t \in Targets |-> [under |-> UnderApi(t[2]), kind |-> RouteOf(t[1], t[2])]]

\* one request through app.js.  r: method, path, userAgent, bodyOk (the body
\* parsers accept the body), variant; count: the requests of the window so far
AppPipeline(r, authHeader, nodeEnv, count, clock, tables) ==
    LET through == [db |-> tables, hits |-> count, user |-> NoUser, token |-> NoToken,
                    auth |-> <<>>, err |-> "", json |-> "", events |-> <<>>,
                    reached |-> {}]
        parseError == ErrorObject(400, "Unexpected token } in JSON at position 12")
        limiter == ApiLimiter(count + 1)
        counted == [through EXCEPT !.hits = IF count < RateMax THEN count + 1
                                           ELSE RateMax + 1]
        scraper == ScraperTable[r.userAgent]
        target == TargetTable[<<r.method, r.path>>]
        kind == target.kind
        a == AuthenticateToken(authHeader, clock)
        login == LoginHandler(LoginBody, 0, clock, tables)
        beforeApi == {"helmet", "cors", "json", "urlencoded", "morgan"}
        beforeRoutes == beforeApi \cup (IF target.under
                                        THEN {"apiLimiter", "blockScrapers"} ELSE {})
    IN  IF r.method = "OPTIONS"
        THEN \* cors answers the preflight itself
             [through EXCEPT !.events = <<Response(204, "")>>,
                             !.reached = {"helmet", "cors"}]
        ELSE IF ~r.bodyOk
        THEN \* express.json calls next(err): only the error handler runs
             [through EXCEPT !.events = <<ErrorHandler(parseError, nodeEnv)>>,
                             !.reached = {"helmet", "cors", "json", "errorHandler"},
                             !.err = parseError.message,
                             !.json = ErrorJson(r.variant, parseError, nodeEnv)]
        ELSE IF target.under /\ ~HasNext(limiter.events)
        THEN [counted EXCEPT !.events = limiter.events, !.json = limiter.json,
                             !.reached = beforeApi \cup {"apiLimiter"}]
        ELSE IF target.under /\ ~HasNext(scraper.events)
        THEN [counted EXCEPT !.events = scraper.events, !.json = scraper.json,
                             !.reached = beforeApi \cup {"apiLimiter", "blockScrapers"}]
        ELSE LET t == IF target.under THEN counted ELSE through IN
             CASE kind = "root" ->
                    [t EXCEPT !.events = <<Response(200, "Hansei Backend API is running!")>>,
                              !.reached = beforeRoutes \cup {"handler"}]
               [] kind = "health" ->
                    [t EXCEPT !.events = <<Response(200, "healthy")>>,
                              !.reached = beforeRoutes \cup {"handler"}]
               [] kind = "verify" ->
                    [t EXCEPT !.events =
                                  Responses(a.events)
                                  \o (IF HasNext(a.events)
                                      THEN <<Response(200, "valid")>> ELSE <<>>),
                              !.auth = a.events, !.user = a.user,
                              !.reached =
                                  beforeRoutes \cup {"authenticateToken"}
                                  \cup (IF HasNext(a.events) THEN {"handler"} ELSE {})]
               [] kind = "login" ->
                    [t EXCEPT !.events = login.events, !.db = login.db,
                              !.token = login.token,
                              !.reached = beforeRoutes \cup {"handler", "database"}]
               [] OTHER ->
                    [t EXCEPT !.events = NotFound(r.variant, r.path).events,
                              !.json = NotFound(r.variant, r.path).json,
                              !.reached = beforeRoutes \cup {"notFound"}]

ApiRequests ==
    { [method |-> t[1], path |-> t[2], userAgent |-> ua, bodyOk |-> TRUE,
       variant |-> "app"] :
          t \in Targets, ua \in {Undefined, "Mozilla/5.0", "curl/8.4.0"} }
    \cup { [method |-> "GET", path |-> "/api/health", userAgent |-> ua,
            bodyOk |-> TRUE, variant |-> "app"] : ua \in UserAgents }
    \cup { [method |-> "POST", path |-> "/api/auth/login", userAgent |-> ua,
            bodyOk |-> FALSE, variant |-> v] :
              ua \in {"curl/8.4.0", "okhttp/4.12.0"}, v \in {"app", "part_002"} }
    \cup { [method |-> "GET", path |-> p, userAgent |-> ua, bodyOk |-> TRUE,
            variant |-> "part_002"] :
              p \in {"/api/nothing", "/API/Nothing"},
              ua \in {"curl/8.4.0", "okhttp/4.12.0"} }

ApiRequest ==
    \E r \in ApiRequests, h \in {Undefined, "Bearer tSmart"},
       nodeEnv \in {"production", "development"} :
        /\ h = Undefined \/ r.path = "/api/auth/verify"
        /\ nodeEnv = "production" \/ ~r.bodyOk
        /\ \E p \in {AppPipeline(r, h, nodeEnv, hits, now, db)} :
            /\ route' = "api"
            /\ at' = now
            /\ hdr' = h
            /\ authEvents' = p.auth
            /\ reqUser' = p.user
            /\ handled' = ("handler" \in p.reached)
            /\ events' = p.events
            /\ errs' = p.err
            /\ env' = IF "errorHandler" \in p.reached THEN nodeEnv ELSE env
            /\ pre' = db
            /\ db' = p.db
            /\ hits' = p.hits
            /\ req' = [kind |-> "api", r |-> r]
            /\ out' = [NoOut EXCEPT !.token = p.token, !.reached = p.reached,
                                    !.json = p.json]
            /\ discarded' = DiscardedBy
            /\ txn' = NoTxn
            /\ lastFile' = <<>>
            /\ repeated' = FALSE
            /\ message' = ""
            /\ reply' = "none"
            /\ UNCHANGED <<inFlight, now>>

\* windowMs: the fifteen minutes of the window have passed
WindowReset ==
    /\ hits > 0
    /\ hits' = 0
    /\ UNCHANGED <<inFlight, now, at, route, hdr, authEvents, events, reqUser, handled, db,
                   pre, txn, lastFile, repeated, env, errs, message, reply, req,
                   out, discarded>>

(***************************************************************************)
(* The server variant with the secure CORS configuration                   *)
(***************************************************************************)

AllowedOrigins ==
    {"http://localhost", "http://127.0.0.1", "null",
     "https://chennai-frontend.vercel.app",
     "https://chennai-frontend-3m487rgbn-sais-projects-266c2092.vercel.app"}

\* corsOptions.origin: the message of the Error given to the callback ("" when
\* the callback gets (null, true))
CorsOrigin(origin) ==
    LET isAllowed ==
            \E allowedOrigin \in AllowedOrigins :
                IF allowedOrigin = "null" /\ ~Truthy(origin) THEN TRUE
                ELSE Truthy(origin) /\ StartsWith(origin, allowedOrigin)
    IN  IF isAllowed \/ ~Truthy(origin) THEN "" ELSE "Not allowed by CORS"

\* the Origin headers sent (Undefined: none)
Origins ==
    {Undefined, "null", "http://localhost", "http://localhost:5500",
     "http://127.0.0.1:8080", "https://chennai-frontend.vercel.app",
     "https://chennai-frontend-3m487rgbn-sais-projects-266c2092.vercel.app",
     "https://localhost:5500", "https://evil.example",
     "http://localhost.evil.example", "http://127.0.0.1.evil.example:8080",
     "https://chennai-frontend.vercel.app.evil.example",
     "https://hansei-frontend.vercel.app"}

CorsTable == [origin \in Origins |-> CorsOrigin(origin)]

\* GET /api/health of the variant: cors(corsOptions), then the handler, or the
\* global error handler when the origin function gave an Error
SecureCorsRequest ==
    \E origin \in Origins :
        /\ route' = "secureCors"
        /\ at' = now
        /\ hdr' = Undefined
        /\ authEvents' = <<>>
        /\ reqUser' = NoUser
        /\ handled' = (CorsTable[origin] = "")
        /\ events' = IF CorsTable[origin] = ""
                     THEN <<Response(200, "healthy")>>
                     ELSE <<Response(500, "An internal server error occurred.")>>
        /\ errs' = CorsTable[origin]
        /\ req' = [kind |-> "cors", origin |-> origin]
        /\ out' = [NoOut EXCEPT !.reached =
                       IF CorsTable[origin] = "" THEN {"cors", "json", "urlencoded", "handler"}
                       ELSE {"cors", "errorHandler"}]
        /\ discarded' = DiscardedBy
        /\ pre' = db
        /\ txn' = NoTxn
        /\ lastFile' = <<>>
        /\ repeated' = FALSE
        /\ message' = ""
        /\ reply' = "none"
        /\ UNCHANGED <<inFlight, now, db, env, hits>>

NextApp == ApiRequest \/ WindowReset \/ SecureCorsRequest

SpecApp == Init /\ [][NextApp]_vars

(***************************************************************************)
(* Properties                                                              *)
(***************************************************************************)

GuardedRoutes == {"verify", "logout", "upload", "updateInventory", "chatbot"}

\* the second space-separated field of the Authorization header of the request
SecondField(h) == IF h = Undefined THEN Undefined ELSE At(Split(h, " "), 1)

\* C1: on a route guarded by authenticateToken the handler runs only if the
\* second space-separated field of the Authorization header is a token that
\* jwt.verify accepts at the time of the request, req.user is then that token's
\* payload, and the middleware does exactly one of two things: it sends one
\* 401/403 response or it calls next.
C1_NextOnlyForVerifiedToken ==
    route \in GuardedRoutes =>
        /\ Len(authEvents) = 1
        /\ \/ authEvents[1].kind = "next"
           \/ authEvents[1].kind = "res" /\ authEvents[1].status \in {401, 403}
        /\ handled => authEvents[1].kind = "next"
        /\ authEvents[1].kind = "next" =>
              /\ hdr # Undefined
              /\ SecondField(hdr) \in SignedTokens
              /\ at < TokenIssuedAt(SecondField(hdr)) + TokenTTL
              /\ reqUser = TokenPayload(SecondField(hdr))
        /\ authEvents[1].kind = "res" => reqUser = NoUser /\ ~handled

\* a request with a verified token in the second field, after the clock moved
C1_Witness ==
    /\ route = "verify" /\ hdr = "Bearer tSmart x" /\ at > 0
    /\ handled /\ reqUser = TokenPayload("tSmart")
    /\ events = <<Response(200, "valid")>>

\* C3: the middleware rejects in exactly three ways: no header or no second
\* field in it gives 401 'No token provided', a TokenExpiredError gives 401
\* 'Token has expired.', every other verification failure gives 403 'Invalid
\* token.'
C3_RejectionOutcomes ==
    (route \in GuardedRoutes /\ ~HasNext(authEvents)) =>
        /\ Len(authEvents) = 1
        /\ authEvents[1] =
             IF hdr = Undefined \/ Len(Split(hdr, " ")) < 2
             THEN Response(401, "Unauthorized: No token provided")
             ELSE IF JwtVerify(SecondField(hdr), at).err = "TokenExpiredError"
             THEN Response(401, "Unauthorized: Token has expired.")
             ELSE Response(403, "Forbidden: Invalid token.")

RoleGuardedRoutes == {"upload", "updateInventory"}

\* C2: on POST /api/upload and PUT /api/sales/inventory/:productId/:branchId a
\* request whose verified token carries another role than 'smart_user', or no
\* role, is answered 403, no row of branches, products or inventory is
\* inserted or changed, and no connection is taken nor transaction begun.
C2_WritesOnlyForSmartUser ==
    (route \in RoleGuardedRoutes /\ HasNext(authEvents)
       /\ reqUser.role # "smart_user") =>
        /\ Len(events) = 1 /\ events[1].status = 403
        /\ db.branches = pre.branches
        /\ db.products = pre.products
        /\ db.inventory = pre.inventory
        /\ ~txn.connected /\ ~txn.began /\ ~txn.committed

\* an upload by a normal_user refused while the inventory holds rows
C2_Witness ==
    /\ route = "upload" /\ hdr = "Bearer tNormal" /\ reqUser.role = "normal_user"
    /\ events = <<Response(403, "Forbidden: You do not have the required permissions.")>>
    /\ db.inventory # EmptyTable /\ db = pre

\* C4: POST /api/upload is all-or-nothing: when a step after BEGIN fails the
\* handler issues ROLLBACK, answers 500 and the tables hold what they held
\* before the request; 200 is sent only after COMMIT succeeded.
C4_UploadAllOrNothing ==
    (route = "upload" /\ handled) =>
        /\ (txn.began /\ txn.failed) =>
              /\ txn.rollback # "none"
              /\ Len(events) = 1 /\ events[1].status = 500
              /\ db = pre
        /\ (\E i \in 1..Len(events) : events[i].status = 200) => txn.committed

ScriptRoutes == {"importCSV", "importExcel"}

\* C5: the import scripts are all-or-nothing: when the promise of
\* importCSVSalesData or importExcelData rejects, users, branches, products and
\* inventory hold the rows they held before the script started, and the promise
\* resolves only when no statement failed.
C5_ScriptsAllOrNothing ==
    route \in ScriptRoutes =>
        /\ ~txn.resolved => db = pre
        /\ txn.resolved => ~txn.failed

\* C6: uploading the same file twice in succession, both uploads committing,
\* leaves every inventory row with the stock values it had after the first
\* upload and creates no row.
C6_UploadIdempotent ==
    (route = "upload" /\ repeated) => db.inventory = pre.inventory

\* the file holds the columns of a sales sheet
IsSalesSheet(data) ==
    /\ Len(data) > 0
    /\ data[1].ItemCode # Undefined
    /\ data[1].SalesQty # Undefined
    /\ data[1].Branch # Undefined

\* C7: after a committed upload of a sales sheet every product whose Item Code
\* occurs in the sheet has the tonnage, star, technology and price derived from
\* the first row carrying that code, whether it was inserted or already there.
C7_ProductsFollowFirstRow ==
    (route = "upload" /\ txn.committed /\ IsSalesSheet(lastFile)) =>
        \A i \in 1..Len(lastFile) :
            Truthy(lastFile[i].ItemCode) =>
                LET code == lastFile[i].ItemCode
                    want == UploadProduct(FirstRowOf(lastFile, code))
                IN  /\ code \in DOMAIN db.products
                    /\ db.products[code].tonnage = want.tonnage
                    /\ db.products[code].star = want.star
                    /\ db.products[code].technology = want.technology
                    /\ db.products[code].price = want.price

\* C8: every request that reaches the handler of POST /api/upload or of
\* POST /api/auth/login has exactly one response when the handler is through,
\* whichever database call failed.
C8_ExactlyOneResponse ==
    (route \in {"upload", "login"} /\ handled) => Len(events) = 1

\* C9: outside development no response carries the message or the stack of the
\* internal error behind it.
C9_GenericErrorBodies ==
    (route # "none" /\ errs # "" /\ env # "development") =>
        \A i \in 1..Len(events) :
            /\ events[i].body # errs
            /\ events[i].details = ""

\* the reply of the first group of the list with a keyword in query
FirstMatch(query) ==
    LET matching == { g \in 1..Len(KeywordGroups) :
                    \E k \in KeywordGroups[g][2] : Includes(query, k) }
    IN  IF matching = {} THEN "default"
        ELSE KeywordGroups[CHOOSE g \in matching : \A h \in matching : g <= h][1]

\* C10: the reply to a chatbot message is that of the first keyword group, in
\* source order, one of whose keywords is a substring of the lowercased
\* message, and the default reply when no group has one; letter case of the
\* message makes no difference.
C10_FirstMatchDecisionList ==
    (route = "chatbot" /\ handled /\ Truthy(message) /\ errs = "") =>
        /\ reply = FirstMatch(ToLowerCase(message))
        /\ events = <<Response(200, reply)>>
        /\ \A m \in Messages :
              ToLowerCase(m) = ToLowerCase(message) =>
                  ProcessQuery(ToLowerCase(m)) = reply

\* a message in capitals with keywords of two groups gets the earlier group
C10_Witness ==
    /\ route = "chatbot" /\ handled
    /\ message = "REVENUE and Models" /\ reply = "total sales"

\* the lookup each example question of the help reply names
ExampleLookup(question) ==
    CASE question = "What is the total stock?" -> "total stock"
      [] question = "How many products are there?" -> "products"
      [] question = "What are the critical alerts?" -> "critical"
      [] question = "Show me the top selling products" -> "top selling"
      [] question = "What's the plan achievement rate?" -> "plan achievement"

ExampleQuestions ==
    {"What is the total stock?", "How many products are there?",
     "What are the critical alerts?", "Show me the top selling products",
     "What's the plan achievement rate?"}

\* C11: each example question of the help reply is answered by the lookup it
\* names: total stock, product count, critical alerts, top selling, plan
\* achievement, and not by the greeting, help, product-count or default reply.
C11_HelpExamplesAnswered ==
    (route = "chatbot" /\ handled /\ errs = "" /\ message \in ExampleQuestions) =>
        reply = ExampleLookup(message)

LoggedRoutes == {"chatbot", "branchPerformance"}

\* C12: on POST /api/chatbot/query and GET /api/analytics/branch-performance a
\* log save that fails leaves the answer what it is when the save succeeds:
\* the same 200 with the same reply or rows; 500 is sent only when the main
\* query failed.
C12_LogFailureKeepsAnswer ==
    (route \in LoggedRoutes /\ handled) =>
        /\ Len(events) = 1
        /\ events[1].status = 500 => errs # "" /\ out.saved = "none"
        /\ out.saved = "failed" =>
              /\ events[1].status = 200
              /\ route = "chatbot" =>
                    events = ChatQueryHandler(message, FALSE, FALSE).events
              /\ route = "branchPerformance" =>
                    /\ events = BranchPerformanceHandler(FALSE, FALSE, db).events
                    /\ out.rows = BranchPerformanceHandler(FALSE, FALSE, db).rows

\* a chatbot query answered from PostgreSQL while the ChatLog save failed
C12_Witness ==
    /\ route = "chatbot" /\ handled /\ out.saved = "failed"
    /\ message = "What is the total stock?" /\ reply = "total stock"
    /\ events = <<Response(200, "total stock")>>

\* C13: login issues a token only when honey_pot is empty, username and
\* password are present, the user row exists and the password verifies against
\* its hash; the token's payload (id, username, role, fullName) is that of the
\* matched row and last_login was set before it was issued; in every other
\* case no token is returned and no last_login changes.
C13_TokenOnlyForVerifiedLogin ==
    route = "login" =>
        LET body == req.body
            u == body.username
        IN  /\ out.token # NoToken =>
                  /\ ~Truthy(body.honey_pot)
                  /\ Truthy(u) /\ Truthy(body.password)
                  /\ u \in DOMAIN pre.users
                  /\ BcryptCompare(body.password, pre.users[u].password)
                  /\ out.token = [id |-> pre.users[u].id, username |-> u,
                                  role |-> pre.users[u].role,
                                  fullName |-> pre.users[u].full_name]
                  /\ db.users[u].last_login = at
                  /\ events = <<Response(200, "token")>>
            /\ out.token = NoToken =>
                  /\ events[1].status # 200
                  /\ DOMAIN db.users = DOMAIN pre.users
                  /\ \A v \in DOMAIN pre.users :
                        db.users[v].last_login = pre.users[v].last_login

\* a login of the smart user, some hours after an earlier one
C13_Witness ==
    /\ route = "login" /\ out.token.username = "smart" /\ out.token.id = 1
    /\ at > 0 /\ db.users["smart"].last_login = at
    /\ pre.users["smart"].last_login = 0

\* the User-Agent test in the claim's words
IsScraperAgent(userAgent) ==
    /\ userAgent # Undefined
    /\ \E agent \in BlockedAgents : Includes(ToLowerCase(userAgent), agent)

AfterBlockScrapers == {"authenticateToken", "handler", "database", "notFound"}

ScraperAnswer ==
    /\ events = <<Response(404, "Endpoint not found")>>
    /\ out.json = "{\"error\":\"Endpoint not found\"}"
    /\ "blockScrapers" \in out.reached

\* C14, as stated: every request under /api/ whose User-Agent contains one of
\* the blocked names in any letter case is answered 404 by blockScrapers and
\* reaches neither authenticateToken nor a route handler nor the database;
\* every other request under /api/ is passed on unchanged.
C14_EveryScraperGets404 ==
    (route = "api" /\ UnderApi(req.r.path)) =>
        IF IsScraperAgent(req.r.userAgent)
        THEN /\ ScraperAnswer
             /\ out.reached \cap AfterBlockScrapers = {}
             /\ db = pre
        ELSE "blockScrapers" \in out.reached =>
                /\ out.reached \cap AfterBlockScrapers # {}
                /\ ~ScraperAnswer

\* C14, amended: a request under /api/ with a blocked User-Agent never reaches
\* authenticateToken, a route handler or the database, and it is answered 404
\* by blockScrapers whenever the preflight handling of cors, the body parsers
\* and the rate limiter have passed it on; a request with no User-Agent or
\* with one containing none of the names is passed on unchanged.
C14_ScrapersStoppedBeforeRoutes ==
    (route = "api" /\ UnderApi(req.r.path)) =>
        IF IsScraperAgent(req.r.userAgent)
        THEN /\ out.reached \cap AfterBlockScrapers = {}
             /\ db = pre
             /\ (/\ req.r.method # "OPTIONS" /\ req.r.bodyOk
                 /\ events # ApiLimiter(RateMax + 1).events) => ScraperAnswer
        ELSE "blockScrapers" \in out.reached =>
                /\ out.reached \cap AfterBlockScrapers # {}
                /\ ~ScraperAnswer

\* a Postman request for a route that exists, stopped by blockScrapers
C14_Witness ==
    /\ route = "api" /\ req.r.userAgent = "PostmanRuntime/7.36.0"
    /\ req.r.path = "/api/health" /\ hits > 1
    /\ ScraperAnswer /\ ~handled

\* C15: the 404 sent for an /api path that matches no route has the status and
\* the JSON body of the 404 that blockScrapers sends to a blocked User-Agent
\* for that path.
C15_BlockedLooksUnmatched ==
    (route = "api" /\ "notFound" \in out.reached) =>
        /\ events[1].status = BlockScrapers("curl/8.4.0").events[1].status
        /\ out.json = BlockScrapers("curl/8.4.0").json

Digits == {"0", "1", "2", "3", "4", "5", "6", "7", "8", "9"}

\* host, or host followed by a colon and a port number
WithAnyPort(origin, host) ==
    \/ origin = host
    \/ /\ StartsWith(origin, host \o ":")
       /\ Len(origin) > Len(host) + 1
       /\ \A i \in (Len(host) + 2)..Len(origin) : SubSeq(origin, i, i) \in Digits

\* the allowed domains as the claim lists them
IsAllowedDomain(origin) ==
    \/ WithAnyPort(origin, "http://localhost")
    \/ WithAnyPort(origin, "http://127.0.0.1")
    \/ origin = "https://chennai-frontend.vercel.app"
    \/ origin = "https://chennai-frontend-3m487rgbn-sais-projects-266c2092.vercel.app"

\* C16: the CORS origin check of the secure variant accepts a request only if
\* it has no Origin header or its Origin is http://localhost or
\* http://127.0.0.1 on any port or one of the two vercel.app URLs; a request
\* from any other domain is rejected with 'Not allowed by CORS'.
C16_OnlyListedOriginsAccepted ==
    route = "secureCors" =>
        IF req.origin = Undefined \/ IsAllowedDomain(req.origin)
        THEN handled /\ errs = ""
        ELSE ~handled /\ errs = "Not allowed by CORS"

\* a login of user u with password pw would be answered 200
LoginSucceeds(u, pw, tables) ==
    LoginHandler([username |-> u, password |-> pw, honey_pot |-> Undefined],
                 0, now, tables).events[1].status = 200

\* C17: change-password overwrites the stored hash only when currentPassword
\* and newPassword are present and currentPassword verifies against the hash
\* of the token's user; after its 200 a login with newPassword succeeds and
\* one with the old password fails (when the two differ); after 400, 401, 404
\* or 500 the tables are unchanged and the old password still logs in.
C17_PasswordChangedOnlyWhenVerified ==
    (route = "changePassword" /\ handled) =>
        LET body == req.body
            owner == UserById(pre, reqUser.id)
        IN  /\ Len(events) = 1
            /\ events[1].status \in {200, 400, 401, 404, 500}
            /\ events[1].status = 200 =>
                  /\ Truthy(body.currentPassword) /\ Truthy(body.newPassword)
                  /\ \E u \in owner :
                        /\ BcryptCompare(body.currentPassword, pre.users[u].password)
                        /\ db = [pre EXCEPT !.users[u].password =
                                                BcryptHash(body.newPassword)]
                        /\ LoginSucceeds(u, body.newPassword, db)
                        /\ body.currentPassword # body.newPassword =>
                              ~LoginSucceeds(u, body.currentPassword, db)
            /\ events[1].status # 200 =>
                  /\ db = pre
                  /\ \A u \in DOMAIN pre.users, pw \in Passwords :
                        LoginSucceeds(u, pw, db) = LoginSucceeds(u, pw, pre)

\* the smart user has replaced the seeded password by another one
C17_Witness ==
    /\ route = "changePassword" /\ handled /\ events[1].status = 200
    /\ req.body.currentPassword = "Daikin@Hansei2025!"
    /\ req.body.newPassword = "New@2026"
    /\ db.users["smart"].password = BcryptHash("New@2026")
    /\ pre.users["smart"].password = BcryptHash("Daikin@Hansei2025!")

\* C18: logout changes no server state: a token that was accepted by a logout
\* (or by a password change) is accepted by every later request that presents
\* it before its 24 hours are over.
C18_LogoutKeepsTokens ==
    /\ route = "logout" => db = pre
    /\ (/\ route \in {"verify", "logout", "changePassword"}
        /\ discarded # "" /\ HeaderToken(hdr) = discarded
        /\ at < TokenIssuedAt(discarded) + TokenTTL) =>
            /\ handled
            /\ reqUser = TokenPayload(discarded)

\* twelve hours on, the token that changed the smart user's password and was
\* logged out is verified once more
C18_Witness ==
    /\ route = "verify" /\ handled /\ at = ClockStep
    /\ discarded = "tSmart" /\ HeaderToken(hdr) = "tSmart"
    /\ db.users["smart"].password = BcryptHash("New@2026")

InventoryColumns == {"op_stock", "avl_stock", "transit", "billing", "month_plan"}

\* C19: PUT /api/sales/inventory/:productId/:branchId changes only the one
\* inventory row it names: each of op_stock, avl_stock, transit, billing and
\* month_plan that the body gives takes the given value, each that is omitted
\* or null keeps its value, and no other row and no other table changes; when
\* there is no such row the answer is 404 and nothing is changed.
C19_UpdateTouchesOneRow ==
    (route = "updateInventory" /\ handled) =>
        /\ db.users = pre.users /\ db.branches = pre.branches
        /\ db.products = pre.products
        /\ DOMAIN db.inventory = DOMAIN pre.inventory
        /\ \A k \in DOMAIN pre.inventory :
              k # req.key => db.inventory[k] = pre.inventory[k]
        /\ events[1].status # 200 => db = pre
        /\ (events[1].status = 200 /\ req.key \in DOMAIN pre.inventory) =>
              \A c \in InventoryColumns :
                  db.inventory[req.key][c] =
                      IF req.body[c] = SqlNull THEN pre.inventory[req.key][c]
                      ELSE req.body[c]
        /\ events[1].status = 200 => req.key \in DOMAIN pre.inventory
        /\ (req.key \notin DOMAIN pre.inventory /\ errs = ""
            /\ reqUser.role = "smart_user") =>
              events = <<Response(404, "Inventory record not found")>> /\ db = pre

\* one of two inventory rows updated in three of its columns
C19_Witness ==
    /\ route = "updateInventory" /\ handled /\ events[1].status = 200
    /\ Cardinality(DOMAIN pre.inventory) = 2
    /\ req.body.op_stock = 7 /\ req.body.avl_stock = SqlNull
    /\ db.inventory[req.key].op_stock = 7
    /\ pre.inventory[req.key].op_stock # 7
    /\ db.inventory[req.key].avl_stock = pre.inventory[req.key].avl_stock

\* the positive Sales Qty. of the rows of one (Item Code, Branch) pair, in tenths
PairSales(data, code, branch) ==
    LET OfPair(row) == /\ row.ItemCode = code /\ row.Branch = branch
                       /\ SafeParseFloat(row.SalesQty, 0) > 0
        Qty(row) == SafeParseFloat(row.SalesQty, 0)
    IN  SumSeq(MapSeq(Qty, FilterSeq(OfPair, data)))

\* C20: after a committed import of a sales sheet into a database without
\* inventory rows, by POST /api/upload or by importCSVSalesData, every
\* (Item Code, Branch) pair with both cells present and a row of positive
\* Sales Qty. has its inventory row, whose billing is the rounded sum of the
\* pair's positive Sales Qty.; a '-' in the code or the name changes nothing.
C20_BillingPerPair ==
    (/\ route \in {"upload", "importCSV"} /\ txn.committed
     /\ IsSalesSheet(lastFile) /\ pre.inventory = EmptyTable) =>
        \A i \in 1..Len(lastFile) :
            LET row == lastFile[i] IN
            (/\ Truthy(row.ItemCode) /\ Truthy(row.Branch)
             /\ SafeParseFloat(row.SalesQty, 0) > 0) =>
                /\ <<row.ItemCode, row.Branch>> \in DOMAIN db.inventory
                /\ db.inventory[<<row.ItemCode, row.Branch>>].billing =
                       RoundTenths(PairSales(lastFile, row.ItemCode, row.Branch))

(***************************************************************************)
(* routes/sales.js: GET /kpis and GET /inventory/region/:regionName        *)
(***************************************************************************)

\* what node-postgres hands over for a bigint (the type of SUM over an integer
\* column): null, or the decimal text of the number
PgNull == "<null>"
PgBigint(n) == IF n = SqlNull THEN PgNull ELSE ToString(n)

DigitValue(c) ==
    CASE c = "0" -> 0 [] c = "1" -> 1 [] c = "2" -> 2 [] c = "3" -> 3
      [] c = "4" -> 4 [] c = "5" -> 5 [] c = "6" -> 6 [] c = "7" -> 7
      [] c = "8" -> 8 [] c = "9" -> 9

RECURSIVE TextToNat(_)
\* Number(text) for a text of decimal digits
TextToNat(text) ==
    IF Len(text) = 0 THEN 0
    ELSE 10 * TextToNat(SubSeq(text, 1, Len(text) - 1))
         + DigitValue(SubSeq(text, Len(text), Len(text)))

\* parseInt(value) for a value of a result row, in tenths: parseInt(null) is NaN
ParseIntPg(value) == IF value = PgNull THEN NaN ELSE Num(10 * TextToNat(value))

\* value > 0 for a value of a result row: null converts to 0, a text to its number
PositivePg(value) == value # PgNull /\ TextToNat(value) > 0

\* Math.round((num / den) * 100) for non-negative integers, den > 0
RoundPercent(num, den) == (2 * 100 * num + den) \div (2 * den)

\* (x / 10000000).toFixed(2) for parseInt's result x
CroreToFixed(x) ==
    IF x.nan THEN "NaN"
    ELSE LET hundredths == (2 * (x.tenths \div 10) + 100000) \div (2 * 100000)
             frac == hundredths % 100
         IN  ToString(hundredths \div 100) \o "."
             \o (IF frac < 10 THEN "0" ELSE "") \o ToString(frac)

\* the one row of the KPI query: the sums over inventory JOIN products, also
\* JOIN branches WHERE b.name = $1 when a branch is asked for
KpisRow(branch, tables) ==
    LET keys == { k \in DOMAIN tables.inventory :
                    /\ k[1] \in DOMAIN tables.products
                    /\ Truthy(branch) =>
                         k[2] \in DOMAIN tables.branches /\ k[2] = branch }
        Stock(k) == tables.inventory[k].avl_stock
        Transit(k) == tables.inventory[k].transit
        Billing(k) == tables.inventory[k].billing
        Plan(k) == tables.inventory[k].month_plan
        Value(k) == tables.inventory[k].avl_stock * tables.products[k[1]].price
        Sum(n) == PgBigint(IF keys = {} THEN SqlNull ELSE n)
    IN  [total_stock |-> Sum(SumOver(Stock, keys)),
         total_transit |-> Sum(SumOver(Transit, keys)),
         total_billing |-> Sum(SumOver(Billing, keys)),
         total_plan |-> Sum(SumOver(Plan, keys)),
         inventory_value |-> Sum(SumOver(Value, keys))]

\* the handler after authenticateToken.  queryFails: pgPool.query rejects
KpisHandler(branch, queryFails, tables) ==
    IF queryFails
    THEN [events |-> <<Response(500, "Failed to fetch KPIs")>>,
          rows |-> EmptyTable, err |-> "connection terminated unexpectedly"]
    ELSE LET data == KpisRow(branch, tables)
             stock == ParseIntPg(data.total_stock)
             transit == ParseIntPg(data.total_transit)
             billing == ParseIntPg(data.total_billing)
             plan == ParseIntPg(data.total_plan)
         IN  [events |-> <<Response(200, "kpis")>>,
              rows |->
                [availability_percentage |->
                    IF PositivePg(data.total_plan)
                    THEN RoundPercent(stock.tenths + transit.tenths, plan.tenths)
                    ELSE 0,
                 plan_achievement_percentage |->
                    IF PositivePg(data.total_plan)
                    THEN RoundPercent(billing.tenths, plan.tenths)
                    ELSE 0,
                 available_stock |-> OrDefault(stock, 0) \div 10,
                 inventory_value_cr |->
                    CroreToFixed(ParseIntPg(data.inventory_value)),
                 total_billing |-> OrDefault(billing, 0) \div 10,
                 total_plan |-> OrDefault(plan, 0) \div 10],
              err |-> ""]

\* the rows of the region query, by material: inventory JOIN products, grouped
\* by product
RegionRows(tables) ==
    LET KeysOf(p) == { k \in DOMAIN tables.inventory : k[1] = p }
    IN  [p \in { q \in DOMAIN tables.products : KeysOf(q) # {} } |->
            LET OpStock(k) == tables.inventory[k].op_stock
                Stock(k) == tables.inventory[k].avl_stock
                Transit(k) == tables.inventory[k].transit
                Billing(k) == tables.inventory[k].billing
                Plan(k) == tables.inventory[k].month_plan
            IN  [total_op_stock |-> PgBigint(SumOver(OpStock, KeysOf(p))),
                 total_avl_stock |-> PgBigint(SumOver(Stock, KeysOf(p))),
                 total_transit |-> PgBigint(SumOver(Transit, KeysOf(p))),
                 total_billing |-> PgBigint(SumOver(Billing, KeysOf(p))),
                 total_month_plan |-> PgBigint(SumOver(Plan, KeysOf(p)))]]

\* item => ({...item, total_available, availability_percentage}): + on two
\* texts joins them, / converts the joined text to its number
WithMetrics(item) ==
    [total_op_stock |-> item.total_op_stock,
     total_avl_stock |-> item.total_avl_stock,
     total_transit |-> item.total_transit,
     total_billing |-> item.total_billing,
     total_month_plan |-> item.total_month_plan,
     total_available |-> item.total_avl_stock \o item.total_transit,
     availability_percentage |->
        IF PositivePg(item.total_month_plan)
        THEN RoundPercent(TextToNat(item.total_avl_stock \o item.total_transit),
                          TextToNat(item.total_month_plan))
        ELSE 0]

\* the reduce over inventoryWithMetrics and the percentage of the totals
RegionTotals(items) ==
    LET OpStock(p) == OrDefault(ParseIntPg(items[p].total_op_stock), 0) \div 10
        Stock(p) == OrDefault(ParseIntPg(items[p].total_avl_stock), 0) \div 10
        Transit(p) == OrDefault(ParseIntPg(items[p].total_transit), 0) \div 10
        Billing(p) == OrDefault(ParseIntPg(items[p].total_billing), 0) \div 10
        Plan(p) == OrDefault(ParseIntPg(items[p].total_month_plan), 0) \div 10
        stock == SumOver(Stock, DOMAIN items)
        transit == SumOver(Transit, DOMAIN items)
        plan == SumOver(Plan, DOMAIN items)
    IN  [total_op_stock |-> SumOver(OpStock, DOMAIN items),
         total_avl_stock |-> stock,
         total_transit |-> transit,
         total_billing |-> SumOver(Billing, DOMAIN items),
         total_month_plan |-> plan,
         availability_percentage |->
            IF plan > 0 THEN RoundPercent(stock + transit, plan) ELSE 0]

\* the handler after authenticateToken.  queryFails: pgPool.query rejects
RegionInventoryHandler(queryFails, tables) ==
    IF queryFails
    THEN [events |-> <<Response(500, "Failed to fetch region inventory")>>,
          rows |-> EmptyTable, err |-> "connection terminated unexpectedly"]
    ELSE LET result == RegionRows(tables)
             inventoryWithMetrics == [p \in DOMAIN result |-> WithMetrics(result[p])]
         IN  [events |-> <<Response(200, "regionInventory")>>,
              rows |-> [inventory |-> inventoryWithMetrics,
                        totals |-> RegionTotals(inventoryWithMetrics)],
              err |-> ""]

\* a read-only route behind authenticateToken whose handler gave r
ReportRequest(name, h, request, r) ==
    \E a \in {AuthenticateToken(h, now)} :
        /\ route' = name
        /\ at' = now
        /\ hdr' = h
        /\ authEvents' = a.events
        /\ reqUser' = a.user
        /\ handled' = HasNext(a.events)
        /\ events' = Responses(a.events)
                     \o (IF HasNext(a.events) THEN r.events ELSE <<>>)
        /\ errs' = IF HasNext(a.events) THEN r.err ELSE ""
        /\ req' = IF HasNext(a.events) THEN request ELSE NoReq
        /\ out' = IF HasNext(a.events) THEN [NoOut EXCEPT !.rows = r.rows] ELSE NoOut
        /\ discarded' = DiscardedBy
        /\ pre' = db
        /\ txn' = NoTxn
        /\ lastFile' = <<>>
        /\ repeated' = FALSE
        /\ UNCHANGED <<inFlight, now, db, env, message, reply, hits>>

\* the ?branch= of the KPI requests: none, two branches and one that is not there
KpiBranches == {Undefined, "Chennai", "Pune", "Madurai"}

\* GET /api/sales/kpis
Kpis ==
    \E h \in DataHeaders, branch \in KpiBranches, queryFails \in BOOLEAN :
        \E r \in {KpisHandler(branch, queryFails, db)} :
            ReportRequest("kpis", h, [kind |-> "kpis", branch |-> branch], r)

\* GET /api/sales/inventory/region/:regionName
RegionInventory ==
    \E h \in DataHeaders, queryFails \in BOOLEAN :
        \E r \in {RegionInventoryHandler(queryFails, db)} :
            ReportRequest("regionInventory", h, NoReq, r)

\* stock sheets uploaded, inventory rows updated, and the two reports read
NextReports ==
    \/ UploadOf(StockFiles, {NoFault})
    \/ UpdateInventoryWith(PutKeys, StockBodies)
    \/ Kpis
    \/ RegionInventory

SpecReports == Init /\ [][NextReports]_vars

\* C21: a KPI request whose query succeeded is answered 200 and no field of its
\* kpis is NaN; when no inventory row is summed (the sums are all NULL) both
\* percentages, available_stock, total_billing and total_plan are 0 and
\* inventory_value_cr is 0.00.
C21_KpisNeverNaN ==
    (route = "kpis" /\ handled /\ errs = "") =>
        /\ Len(events) = 1 /\ events[1].status = 200
        /\ out.rows.inventory_value_cr # "NaN"
        /\ KpisRow(req.branch, db).total_plan = PgNull =>
              /\ out.rows.availability_percentage = 0
              /\ out.rows.plan_achievement_percentage = 0
              /\ out.rows.available_stock = 0
              /\ out.rows.total_billing = 0
              /\ out.rows.total_plan = 0
              /\ out.rows.inventory_value_cr = "0.00"

\* C22: in an answered region report every product's total_available is the
\* number total_avl_stock + total_transit, its availability_percentage is
\* round(100 * total_available / total_month_plan) when the plan is positive,
\* and the total_available of the products add up to the totals'
\* total_avl_stock + total_transit.
C22_RegionArithmetic ==
    (route = "regionInventory" /\ handled /\ errs = "") =>
        LET inventory == out.rows.inventory
            totals == out.rows.totals
            Sum(p) == TextToNat(inventory[p].total_avl_stock)
                      + TextToNat(inventory[p].total_transit)
            Available(p) == TextToNat(inventory[p].total_available)
        IN  /\ \A p \in DOMAIN inventory :
                  /\ Available(p) = Sum(p)
                  /\ TextToNat(inventory[p].total_month_plan) > 0 =>
                        inventory[p].availability_percentage =
                            RoundPercent(Sum(p), TextToNat(inventory[p].total_month_plan))
            /\ SumOver(Available, DOMAIN inventory)
                   = totals.total_avl_stock + totals.total_transit

(***************************************************************************)
(* routes/upload.js of the variant with file_uploads: POST /file and       *)
(* POST /process/:fileId                                                   *)
(***************************************************************************)

\* the role middleware of this variant: role-based authorization for the one
\* privileged role
RequireRole(role, user) == AuthorizeRole(role, user)

\* the files one server keeps (SERIAL ids from 1)
MaxFiles == 2

\* NoFault of a processing request.  select: the SELECT of the file fails;
\* connect, failAt, rollback: as for the upload handler, within processData;
\* update: the UPDATE that sets processed fails
NoProcessFault == [select |-> FALSE, connect |-> FALSE, failAt |-> 0,
                   rollback |-> FALSE, update |-> FALSE]

\* the handler of POST /file after the middlewares.  queryFails: the INSERT fails
UploadFileHandler(user, file, queryFails, uploads) ==
    IF ~file.present
    THEN [uploads |-> uploads, events |-> <<Response(400, "No file uploaded")>>,
          err |-> ""]
    ELSE IF queryFails
    THEN [uploads |-> uploads, events |-> <<Response(500, "Failed to upload file")>>,
          err |-> "connection terminated unexpectedly"]
    ELSE [uploads |-> uploads @@
              ((Cardinality(DOMAIN uploads) + 1) :>
                  [original_name |-> file.originalname, uploaded_by |-> user.id,
                   processed |-> FALSE, sheet |-> file.data]),
          events |-> <<Response(200, "File uploaded successfully")>>, err |-> ""]

RECURSIVE ProcessInventoryRows(_, _)
\* processInventoryData of this variant: two SELECTs for every row
ProcessInventoryRows(data, run) ==
    IF data = <<>> \/ run.failed THEN run
    ELSE LET row == Head(data)
             r1 == QueryAll(run, <<Plain("select"), Plain("select")>>)
             found == /\ row.Material \in DOMAIN r1.t.products
                      /\ row.Branch \in DOMAIN r1.t.branches
             r2 == IF found
                   THEN Query(r1, Statement("upsertInventorySet",
                            <<row.Material, row.Branch>>,
                            [op_stock |-> StockCell(row.OpStock),
                             avl_stock |-> StockCell(row.AvlStock),
                             transit |-> StockCell(row.Transit),
                             billing |-> StockCell(row.Billing),
                             month_plan |-> StockCell(row.MonthPlan)]))
                   ELSE r1
         IN  ProcessInventoryRows(Tail(data), r2)

RECURSIVE ProcessSalesRows(_, _)
\* processSalesData: the INSERT goes to sales_transactions, a table no route
\* of the model reads
ProcessSalesRows(data, run) ==
    IF data = <<>> \/ run.failed THEN run
    ELSE LET row == Head(data)
             r1 == QueryAll(run, <<Plain("select"), Plain("select")>>)
             found == /\ row.Material \in DOMAIN r1.t.products
                      /\ row.Branch \in DOMAIN r1.t.branches
         IN  ProcessSalesRows(Tail(data),
                              IF found THEN Query(r1, Plain("insert")) ELSE r1)

\* processProductData: the sheets of the model have no Star and no Price
\* column, so that parseInt gives NaN and the first INSERT is refused
ProcessProductRows(data, run) ==
    IF data = <<>> \/ run.failed THEN run
    ELSE Throw([run EXCEPT !.n = @ + 1])

\* processData(data, dataType): the tables and the transaction it leaves, and
\* whether it threw
ProcessData(data, dataType, fault, tables) ==
    IF fault.connect
    THEN [db |-> tables, txn |-> NoTxn, threw |-> TRUE]
    ELSE LET r0 == Query(StartRun(tables, fault.failAt), Plain("begin"))
             r1 == CASE dataType = "inventory" -> ProcessInventoryRows(data, r0)
                     [] dataType = "products" -> ProcessProductRows(data, r0)
                     [] dataType = "sales" -> ProcessSalesRows(data, r0)
                     [] OTHER -> Throw(r0)   \* 'Invalid data type'
             r2 == Query(r1, Plain("commit"))
             t == [NoTxn EXCEPT !.connected = TRUE, !.began = ~r0.failed,
                                !.released = TRUE]
         IN  IF ~r2.failed
             THEN [db |-> Commit(tables, r2.t),
                   txn |-> [t EXCEPT !.committed = TRUE], threw |-> FALSE]
             ELSE [db |-> Rollback(tables, r2.t),
                   txn |-> [t EXCEPT !.failed = TRUE,
                              !.rollback = IF fault.rollback THEN "failed" ELSE "ok"],
                   threw |-> TRUE]

\* the handler of POST /process/:fileId after the middlewares
ProcessFileHandler(user, fileId, dataType, fault, tables, uploads) ==
    LET Failed(t, x) == [db |-> t, uploads |-> uploads, txn |-> x,
                         events |-> <<Response(500, "Failed to process file")>>,
                         err |-> "connection terminated unexpectedly"]
    IN  IF fault.select THEN Failed(tables, NoTxn)
        ELSE IF fileId \notin DOMAIN uploads \/ uploads[fileId].uploaded_by # user.id
        THEN [db |-> tables, uploads |-> uploads, txn |-> NoTxn,
              events |-> <<Response(404, "File not found")>>, err |-> ""]
        ELSE LET p == ProcessData(uploads[fileId].sheet, dataType, fault, tables) IN
             IF p.threw THEN Failed(p.db, p.txn)
             ELSE IF fault.update THEN Failed(p.db, p.txn)
             ELSE [db |-> p.db,
                   uploads |-> [uploads EXCEPT ![fileId].processed = TRUE],
                   txn |-> p.txn,
                   events |-> <<Response(200, "File processed successfully")>>,
                   err |-> ""]

\* what reaches the handlers of the two routes
StoredFiles ==
    { [present |-> FALSE, originalname |-> "", data |-> <<>>],
      [present |-> TRUE, originalname |-> "stock.csv",
       data |-> <<InventoryRow("RL50", "Chennai", "5", "4", "1", "3", "5")>>] }

DataTypes == {"inventory", "products", "sales", Undefined}

\* for the one row of the sheet: BEGIN is statement 1, the INSERT statement 4
\* and COMMIT statement 5
ProcessFaults ==
    {NoProcessFault, [NoProcessFault EXCEPT !.select = TRUE],
     [NoProcessFault EXCEPT !.connect = TRUE],
     [NoProcessFault EXCEPT !.update = TRUE],
     [NoProcessFault EXCEPT !.failAt = 1, !.rollback = TRUE],
     [NoProcessFault EXCEPT !.failAt = 4],
     [NoProcessFault EXCEPT !.failAt = 5]}

\* a role-guarded route of this variant whose handler gave r
FileRequest(name, h, request, r) ==
    \E a \in {AuthenticateToken(h, now)} :
    \E z \in {IF HasNext(a.events) THEN RequireRole("smart_user", a.user) ELSE <<>>} :
        /\ route' = name
        /\ at' = now
        /\ hdr' = h
        /\ authEvents' = a.events
        /\ reqUser' = a.user
        /\ handled' = HasNext(z)
        /\ events' = Responses(a.events \o z) \o (IF HasNext(z) THEN r.events ELSE <<>>)
        /\ errs' = IF HasNext(z) THEN r.err ELSE ""
        /\ req' = IF HasNext(z) THEN request ELSE NoReq
        /\ out' = NoOut
        /\ discarded' = DiscardedBy
        /\ pre' = db
        /\ lastFile' = <<>>
        /\ repeated' = FALSE
        /\ file_uploads' = IF HasNext(z) THEN r.uploads ELSE file_uploads
        /\ UNCHANGED <<now, env, message, reply, hits, procs>>

\* POST /api/upload/file
UploadFile ==
    \E h \in DataHeaders, file \in StoredFiles, queryFails \in BOOLEAN :
    \E u \in {AuthenticateToken(h, now).user} :
    /\ u.role = "smart_user" \/ (file.present /\ ~queryFails)
    /\ \E r \in {UploadFileHandler(u, file, queryFails, file_uploads)} :
        /\ Cardinality(DOMAIN r.uploads) <= MaxFiles
        /\ FileRequest("uploadFile", h, NoReq, r)
        /\ UNCHANGED <<db, txn, committedFor, checkedOut>>

\* POST /api/upload/process/:fileId
ProcessFileOf(dataTypes, faults) ==
    \E h \in DataHeaders, fileId \in 1..MaxFiles, dataType \in dataTypes,
       fault \in faults :
    \E u \in {AuthenticateToken(h, now).user} :
    /\ u.role = "smart_user"
          \/ (fileId = 1 /\ dataType = "inventory" /\ fault = NoProcessFault)
    /\ \E r \in {ProcessFileHandler(u, fileId, dataType, fault, db, file_uploads)} :
        /\ StockBounded(r.db)
        /\ FileRequest("processFile", h, [kind |-> "process", fileId |-> fileId], r)
        /\ \E ran \in {u.role = "smart_user"} :
            /\ db' = IF ran THEN r.db ELSE db
            /\ txn' = IF ran THEN r.txn ELSE NoTxn
            /\ checkedOut' = checkedOut + (IF ran THEN Held(r.txn) ELSE 0)
            /\ committedFor' = IF ran /\ r.txn.committed
                               THEN committedFor \cup {fileId} ELSE committedFor

ProcessFile == ProcessFileOf(DataTypes, ProcessFaults)

\* sheets uploaded by the upload route, files stored and files processed
NextProcess ==
    \/ UploadOf({File(<<SalesRow("RL50", "Chennai", "3", "1.5", "5", "Inv")>>)}, {NoFault})
    \/ UploadFile
    \/ ProcessFile

SpecProcess == Init /\ [][NextProcess]_vars

\* C23: a row of file_uploads has processed = true exactly when a processing
\* transaction for its file committed; and a processing request that just
\* ended left the flag false if it failed or rolled back, and left it true and
\* answered success if its transaction committed.
C23_ProcessedTracksCommit ==
    /\ \A f \in DOMAIN file_uploads :
          file_uploads[f].processed <=> f \in committedFor
    /\ (route = "processFile" /\ handled /\ req.fileId \in DOMAIN file_uploads) =>
          /\ (txn.committed /\ req.fileId \in committedFor) =>
                /\ file_uploads[req.fileId].processed
                /\ events[Len(events)].status = 200
          /\ (events[Len(events)].status = 500 /\ req.fileId \notin committedFor) =>
                ~file_uploads[req.fileId].processed

(***************************************************************************)
(* config/database.js: seedDatabase                                        *)
(***************************************************************************)

\* the rows of the INSERT INTO branches
SeedBranches ==
    <<[name |-> "Chennai", state |-> "Tamil Nadu", market_share |-> 25, penetration |-> 85],
      [name |-> "Bangalore", state |-> "Karnataka", market_share |-> 22, penetration |-> 78],
      [name |-> "Hyderabad", state |-> "Telangana", market_share |-> 20, penetration |-> 72],
      [name |-> "Vijayawada", state |-> "Andhra Pradesh", market_share |-> 18, penetration |-> 68],
      [name |-> "Cochin", state |-> "Kerala", market_share |-> 15, penetration |-> 65]>>

\* the rows of the INSERT INTO products (tonnage in tenths) and, under stock,
\* the row of inventoryData: the stock at Chennai, Bangalore, Hyderabad,
\* Vijayawada and Cochin
SeedProducts ==
    LET P(material, tonnage, star, technology, price, factory_stock, stock) ==
            [material |-> material, tonnage |-> tonnage, star |-> star,
             technology |-> technology, price |-> price,
             factory_stock |-> factory_stock, stock |-> stock]
    IN  <<P("RKL28TV16W", 8, 3, "Non Inv", 32000, 120, <<18, 15, 15, 12, 12>>),
          P("RKT35TV16U", 10, 3, "Inverter", 45000, 250, <<35, 30, 30, 28, 28>>),
          P("FTKF50TV16U", 15, 5, "Inverter", 55000, 150, <<28, 25, 25, 23, 23>>),
          P("FTHT30TV16U", 10, 4, "Inverter", 48000, 200, <<22, 20, 20, 18, 18>>),
          P("RKL50TV16W", 15, 3, "Non Inv", 42000, 180, <<20, 18, 18, 15, 15>>),
          P("RKT60TV16U", 18, 3, "Inverter", 62000, 100, <<14, 14, 11, 11, 0>>),
          P("FTKF28TV16U", 8, 5, "Inverter", 41000, 300, <<45, 45, 40, 40, 0>>),
          P("FTHT36TV16U", 12, 4, "Inverter", 51000, 130, <<25, 25, 22, 22, 0>>),
          P("RKL71TV16W", 20, 3, "Non Inv", 58000, 90, <<11, 11, 9, 9, 0>>),
          P("RKL35TV16W", 10, 3, "Non Inv", 36000, 220, <<30, 30, 28, 28, 0>>),
          P("GENERIC-1STAR", 10, 1, "Non Inv", 25000, 500, <<50, 40, 30, 20, 10>>),
          P("GENERIC-2STAR", 15, 2, "Non Inv", 29000, 400, <<45, 35, 25, 15, 5>>)>>

\* the row the nested loops insert for the p-th product and the b-th branch
SeedInventoryRow(p, b) ==
    LET stock == SeedProducts[p].stock[b] IN
    [op_stock |-> stock, avl_stock |-> stock,
     transit |-> stock \div 10,               \* Math.floor(stock * 0.1)
     billing |-> (3 * stock) \div 10,         \* Math.floor(stock * 0.3)
     month_plan |-> (12 * stock + 9) \div 10] \* Math.ceil(stock * 1.2)

\* the queries of one run that gets past the check: the COUNT, the three
\* INSERTs, the two SELECTs and one INSERT for every product and branch
SeedQueries == 6 + Len(SeedProducts) * Len(SeedBranches)

\* the tables after the queries before the n-th, each on its own connection
\* of the pool and outside any transaction
SeedUpTo(n, tables) ==
    LET users == IF n > 2 THEN DefaultUsers ELSE tables.users
        branches ==
            IF n > 3
            THEN [name \in { SeedBranches[i].name : i \in DOMAIN SeedBranches } |->
                    LET row == SeedBranches[CHOOSE i \in DOMAIN SeedBranches :
                                               SeedBranches[i].name = name]
                    IN  [state |-> row.state, market_share |-> row.market_share,
                         penetration |-> row.penetration]]
            ELSE tables.branches
        products ==
            IF n > 4
            THEN [material \in { SeedProducts[i].material : i \in DOMAIN SeedProducts } |->
                    LET row == SeedProducts[CHOOSE i \in DOMAIN SeedProducts :
                                               SeedProducts[i].material = material]
                    IN  [tonnage |-> row.tonnage, star |-> row.star,
                         technology |-> row.technology, price |-> row.price,
                         factory_stock |-> row.factory_stock]]
            ELSE tables.products
        inserted == { <<p, b>> \in (DOMAIN SeedProducts) \X (DOMAIN SeedBranches) :
                        6 + (p - 1) * Len(SeedBranches) + b < n }
        inventory ==
            [k \in { <<SeedProducts[pb[1]].material, SeedBranches[pb[2]].name>> :
                        pb \in inserted } |->
                LET pb == CHOOSE x \in inserted :
                              /\ SeedProducts[x[1]].material = k[1]
                              /\ SeedBranches[x[2]].name = k[2]
                IN  SeedInventoryRow(pb[1], pb[2])]
    IN  [users |-> users, branches |-> branches, products |-> products,
         inventory |-> inventory @@ tables.inventory]

\* seedDatabase().  failAt: the query that is rejected (0: none is); the catch
\* block logs the error and the promise resolves
SeedDatabase(failAt, tables) ==
    IF failAt = 1
    THEN [db |-> tables, err |-> "connection terminated unexpectedly"]
    ELSE IF tables.users # EmptyTable     \* userCheck.rows[0].count > 0
    THEN [db |-> tables, err |-> ""]
    ELSE IF failAt = 0
    THEN [db |-> SeedUpTo(SeedQueries + 1, tables), err |-> ""]
    ELSE [db |-> SeedUpTo(failAt, tables), err |-> "connection terminated unexpectedly"]

\* a database on which createTables has just run
InitSeed ==
    /\ now = 0
    /\ at = 0
    /\ route = "none"
    /\ hdr = Undefined
    /\ authEvents = <<>>
    /\ events = <<>>
    /\ reqUser = NoUser
    /\ handled = FALSE
    /\ db = EmptyDb
    /\ pre = EmptyDb
    /\ txn = NoTxn
    /\ lastFile = <<>>
    /\ repeated = FALSE
    /\ env = "production"
    /\ errs = ""
    /\ message = ""
    /\ reply = "none"
    /\ req = NoReq
    /\ out = NoOut
    /\ hits = 0
    /\ discarded = ""
    /\ file_uploads = EmptyTable
    /\ committedFor = {}
    /\ checkedOut = 0
    /\ procs = EmptyTable

\* the server starts: database.js is loaded and runs seedDatabase()
Seed ==
    \E failAt \in 0..SeedQueries :
    \E r \in {SeedDatabase(failAt, db)} :
        /\ route' = "seedDatabase"
        /\ at' = now
        /\ hdr' = Undefined
        /\ authEvents' = <<>>
        /\ events' = <<>>
        /\ reqUser' = NoUser
        /\ handled' = TRUE
        /\ pre' = db
        /\ db' = r.db
        /\ errs' = r.err
        /\ txn' = NoTxn
        /\ lastFile' = <<>>
        /\ repeated' = FALSE
        /\ req' = [kind |-> "seed", failAt |-> failAt]
        /\ out' = NoOut
        /\ discarded' = DiscardedBy
        /\ UNCHANGED <<inFlight, now, env, message, reply, hits>>

\* the server is started any number of times, and the region report is read
NextSeed == Seed \/ RegionInventory

SpecSeed == InitSeed /\ [][NextSeed]_vars

\* C24: whenever users is not empty the database holds the 5 seed branches,
\* the 12 seed products and exactly one inventory row for every product and
\* branch; and a run of seedDatabase on a database that has users inserts
\* nothing.
C24_SeedingCompleteAndOnce ==
    /\ db.users # EmptyTable =>
          /\ DOMAIN db.branches = { SeedBranches[i].name : i \in DOMAIN SeedBranches }
          /\ DOMAIN db.products = { SeedProducts[i].material : i \in DOMAIN SeedProducts }
          /\ DOMAIN db.inventory = (DOMAIN db.products) \X (DOMAIN db.branches)
    /\ (route = "seedDatabase" /\ pre.users # EmptyTable) => db = pre

\* the group of the decision list in which keyword k is listed
GroupOf(k) ==
    KeywordGroups[CHOOSE g \in 1..Len(KeywordGroups) : k \in KeywordGroups[g][2]][1]

\* C25: a chatbot message that is exactly one of the 26 keywords of the
\* decision list is answered by the branch in which that keyword is listed.
C25_NoKeywordShadowed ==
    (route = "chatbot" /\ handled /\ errs = "" /\ message \in Keywords) =>
        reply = GroupOf(message)

(***************************************************************************)
(* routes/auth.js: POST /change-password, one await at a time.  Between    *)
(* the SELECT and the UPDATE of one request the event loop runs the        *)
(* awaits of the others.                                                   *)
(***************************************************************************)

\* the change-password requests of one behaviour
MaxRequests == 3

\* a request that was answered: its response, the stored hash its UPDATE found
\* (stored) and the requests whose UPDATE was applied between its SELECT and
\* its own UPDATE (during)
Answered(proc, response, stored, during) ==
    [proc EXCEPT !.pc = "done", !.status = response.status, !.stored = stored,
                 !.during = during]

\* the requests that were answered 200
Succeeded(ps) == { p \in DOMAIN ps : ps[p].pc = "done" /\ ps[p].status = 200 }

\* the handler up to `await pgPool.query('UPDATE ...')`: the validation, the
\* SELECT, bcrypt.compare and bcrypt.hash.  selectFails: the SELECT is rejected
ChangePasswordSelect(body, userId, selectFails, tables, ps) ==
    LET proc == [pc |-> "update", userId |-> userId, body |-> body, seen |-> "",
                 stored |-> "", status |-> 0, before |-> Succeeded(ps), during |-> {}]
        Reply(status, text) == Answered(proc, Response(status, text), "", {})
    IN  IF ~Truthy(body.currentPassword) \/ ~Truthy(body.newPassword)
        THEN Reply(400, "Current password and new password are required")
        ELSE IF selectFails
        THEN Reply(500, "Internal server error")
        ELSE IF UserById(tables, userId) = {}
        THEN Reply(404, "User not found")
        ELSE LET u == CHOOSE x \in UserById(tables, userId) : TRUE IN
             IF ~BcryptCompare(body.currentPassword, tables.users[u].password)
             THEN Reply(401, "Current password is incorrect")
             ELSE [proc EXCEPT !.seen = tables.users[u].password]

\* the rest of the handler: the UPDATE and the response.  updateFails: the
\* UPDATE is rejected
ChangePasswordUpdate(proc, updateFails, tables, ps) ==
    LET rows == UserById(tables, proc.userId)
        stored == IF rows = {} THEN ""
                  ELSE tables.users[CHOOSE x \in rows : TRUE].password
        during == Succeeded(ps) \ proc.before
    IN  IF updateFails
        THEN [db |-> tables,
              proc |-> Answered(proc, Response(500, "Internal server error"),
                                stored, during),
              err |-> "connection terminated unexpectedly"]
        ELSE [db |-> [tables EXCEPT !.users =
                        [u \in DOMAIN @ |->
                            IF u \in rows
                            THEN [@[u] EXCEPT !.password = BcryptHash(proc.body.newPassword)]
                            ELSE @[u]]],
              proc |-> Answered(proc, Response(200, "Password changed successfully"),
                                stored, during),
              err |-> ""]

\* the response of an answered request
ResponseOf(proc) ==
    CASE proc.status = 200 -> Response(200, "Password changed successfully")
      [] proc.status = 400 ->
           Response(400, "Current password and new password are required")
      [] proc.status = 401 -> Response(401, "Current password is incorrect")
      [] proc.status = 404 -> Response(404, "User not found")
      [] OTHER -> Response(500, "Internal server error")

RaceBodies ==
    { [currentPassword |-> c, newPassword |-> n] :
        c \in {"Daikin@Hansei2025!", "New@2026"},
        n \in {Undefined, "New@2026", "Other@2027"} }

\* a request arrives and runs to its UPDATE, or to its response if it does not
\* get that far
ChangePasswordArrives ==
    \E h \in {Undefined, "Bearer tSmart"}, body \in RaceBodies, selectFails \in BOOLEAN :
    \E a \in {AuthenticateToken(h, now)} :
    \E p \in {Cardinality(DOMAIN procs) + 1} :
        /\ p <= MaxRequests
        /\ HasNext(a.events) \/ (~selectFails /\ body.newPassword = "New@2026")
        /\ route' = "changePassword"
        /\ at' = now
        /\ hdr' = h
        /\ authEvents' = a.events
        /\ reqUser' = a.user
        /\ handled' = HasNext(a.events)
        /\ pre' = db
        /\ req' = [kind |-> "changePassword", body |-> body]
        /\ errs' = IF HasNext(a.events) /\ selectFails
                   THEN "connection terminated unexpectedly" ELSE ""
        /\ out' = NoOut
        /\ discarded' = DiscardedBy
        /\ txn' = NoTxn
        /\ lastFile' = <<>>
        /\ repeated' = FALSE
        /\ IF HasNext(a.events)
           THEN \E proc \in {ChangePasswordSelect(body, a.user.id, selectFails, db, procs)} :
                  /\ procs' = procs @@ (p :> proc)
                  /\ events' = IF proc.pc = "done" THEN <<ResponseOf(proc)>> ELSE <<>>
           ELSE /\ procs' = procs
                /\ events' = Responses(a.events)
        /\ UNCHANGED <<now, db, env, message, reply, hits, file_uploads,
                       committedFor, checkedOut>>

\* the UPDATE of a request in flight is applied and the request is answered
ChangePasswordApplies ==
    \E p \in DOMAIN procs, updateFails \in BOOLEAN :
        /\ procs[p].pc = "update"
        /\ \E r \in {ChangePasswordUpdate(procs[p], updateFails, db, procs)} :
            /\ db' = r.db
            /\ procs' = [procs EXCEPT ![p] = r.proc]
            /\ events' = <<ResponseOf(r.proc)>>
            /\ errs' = r.err
            /\ req' = [kind |-> "changePassword", body |-> procs[p].body]
        /\ route' = "changePassword"
        /\ handled' = TRUE
        /\ pre' = db
        /\ discarded' = DiscardedBy
        /\ UNCHANGED <<now, at, hdr, authEvents, reqUser, txn, lastFile, repeated, env,
                       message, reply, out, hits, file_uploads, committedFor,
                       checkedOut>>

NextRace == ChangePasswordArrives \/ ChangePasswordApplies

SpecRace == Init /\ [][NextRace]_vars

\* C26: every change-password request answered 200 supplied a currentPassword
\* that matches the hash stored when its UPDATE was applied; and of two
\* requests that both supplied the original password, none was answered 200
\* after the other's UPDATE had been applied between its SELECT and its UPDATE.
C26_UpdateSeesCheckedPassword ==
    \A p \in Succeeded(procs) :
        /\ BcryptCompare(procs[p].body.currentPassword, procs[p].stored)
        /\ \A q \in procs[p].during :
              ~(/\ procs[q].userId = procs[p].userId
                /\ procs[p].body.currentPassword = "Daikin@Hansei2025!"
                /\ procs[q].body.currentPassword = "Daikin@Hansei2025!")

(***************************************************************************)
(* routes/upload.js: POST /api/upload, requests in flight together.  Each  *)
(* request runs its transaction on its own client, under PostgreSQL's      *)
(* default isolation level READ COMMITTED: a statement sees what was       *)
(* committed before it started and what its own transaction wrote, and a   *)
(* write to a row that another open transaction wrote waits for that       *)
(* transaction to end.  A step of the model runs the statements of one     *)
(* row of an inventory sheet, or of one whole sales sheet, together.       *)
(***************************************************************************)

\* the upload requests of one behaviour
MaxUploads == 3

NoWrites == [branches |-> EmptyTable, products |-> EmptyTable,
             inventory |-> EmptyTable]

\* what a statement of a transaction with writes w sees of the committed tables
Overlay(tables, w) ==
    [tables EXCEPT !.branches = w.branches @@ @, !.products = w.products @@ @,
                   !.inventory = w.inventory @@ @]

\* the rows by which the tables `after` differ from the tables `before`
Changed(before, after) ==
    { k \in DOMAIN after : k \notin DOMAIN before \/ after[k] # before[k] }

\* the writes of a transaction that had written w and whose statements took
\* what it saw from `before` to `after`
WritesAfter(w, before, after) ==
    [branches |->
        [k \in Changed(before.branches, after.branches) |-> after.branches[k]]
        @@ w.branches,
     products |->
        [k \in Changed(before.products, after.products) |-> after.products[k]]
        @@ w.products,
     inventory |->
        [k \in Changed(before.inventory, after.inventory) |-> after.inventory[k]]
        @@ w.inventory]

\* two transactions have written a row in common
Conflict(w1, w2) ==
    \/ DOMAIN w1.branches \cap DOMAIN w2.branches # {}
    \/ DOMAIN w1.products \cap DOMAIN w2.products # {}
    \/ DOMAIN w1.inventory \cap DOMAIN w2.inventory # {}

\* the steps in which processInventoryData runs a sheet: a sales sheet in
\* one, a sheet of inventory rows row by row
StepsOf(data) ==
    LET isCSVSalesData == /\ Len(data) > 0
                          /\ data[1].ItemCode # Undefined
                          /\ data[1].SalesQty # Undefined
                          /\ data[1].Branch # Undefined
    IN  IF isCSVSalesData THEN <<data>>
        ELSE [i \in 1..Len(data) |-> <<data[i]>>]

\* the writes of the transaction of proc after its next step, run against the
\* committed tables
WritesOfStep(proc, tables) ==
    LET view == Overlay(tables, proc.writes)
        run == ProcessInventoryData(Head(proc.todo), StartRun(view, 0))
    IN  WritesAfter(proc.writes, view, run.t)

\* the next step of request p has to wait for a row that another open
\* transaction wrote
Waits(p, ps, tables) ==
    /\ ps[p].pc = "run"
    /\ \E w \in {WritesOfStep(ps[p], tables)} :
       \E q \in DOMAIN ps \ {p} :
          ps[q].pc \in {"run", "commit"} /\ Conflict(w, ps[q].writes)

\* the handler up to its first query after BEGIN.  fault.connect:
\* pgPool.connect() rejects; fault.failAt = 1: BEGIN is rejected
UploadBegins(file, fault, tables) ==
    LET proc == [pc |-> "run", file |-> file, todo |-> StepsOf(file.data),
                 writes |-> NoWrites, origin |-> tables, status |-> 0,
                 client |-> TRUE]
    IN  IF ~file.present
        THEN [proc EXCEPT !.pc = "done", !.status = 400, !.client = FALSE]
        ELSE IF fault.connect
        THEN \* the rejection leaves the handler: no response
             [proc EXCEPT !.pc = "done", !.client = FALSE]
        ELSE IF fault.failAt = 1 \/ ~file.parses \/ file.data = <<>>
        THEN \* catch: ROLLBACK, 500; finally: release
             [proc EXCEPT !.pc = "done", !.status = 500, !.client = FALSE]
        ELSE proc

\* the statements of the next step.  fails: one of them is rejected, and the
\* catch block rolls the transaction back
UploadStep(proc, fails, tables) ==
    IF fails
    THEN [proc EXCEPT !.pc = "done", !.status = 500, !.writes = NoWrites,
                      !.client = FALSE]
    ELSE [proc EXCEPT !.writes = WritesOfStep(proc, tables),
                      !.todo = Tail(@),
                      !.pc = IF Len(proc.todo) = 1 THEN "commit" ELSE "run"]

\* COMMIT, the response and the release of the client
UploadEnds(proc, fails, tables) ==
    IF fails
    THEN [db |-> tables,
          proc |-> [proc EXCEPT !.pc = "done", !.status = 500, !.writes = NoWrites,
                                !.client = FALSE]]
    ELSE [db |-> Overlay(tables, proc.writes),
          proc |-> [proc EXCEPT !.pc = "done", !.status = 200, !.client = FALSE]]

\* the response of a request that ended
UploadResponse(proc) ==
    CASE proc.status = 200 ->
           <<ResponseWith(200, "File processed and data imported successfully.", "")>>
      [] proc.status = 400 -> <<Response(400, "No file uploaded.")>>
      [] proc.status = 500 ->
           <<ResponseWith(500, "Failed to process file.",
                          "connection terminated unexpectedly")>>
      [] OTHER -> <<>>

\* a sales sheet of two branches, and sheets of inventory rows for them
RaceFiles ==
    { File(<<SalesRow("RL50", "Chennai", "3", "1.5", "5", "Inv"),
             SalesRow("RL50", "Pune", "2", "1.5", "5", "Inv")>>),
      File(<<InventoryRow("RL50", "Chennai", "5", "4", "1", "3", "5"),
             InventoryRow("RL50", "Pune", "2", "2", "0", "1", "3")>>),
      File(<<InventoryRow("RL50", "Pune", "1", "1", "0", "0", "2"),
             InventoryRow("RL50", "Chennai", "4", "3", "1", "2", "4")>>) }

\* what a step of a request in flight leaves of the last request's record
UploadStepRecord(proc) ==
    /\ route' = "upload"
    /\ handled' = TRUE
    /\ events' = IF proc.pc = "done" THEN UploadResponse(proc) ELSE <<>>
    /\ errs' = IF proc.status = 500 THEN "connection terminated unexpectedly" ELSE ""
    /\ txn' = [NoTxn EXCEPT !.connected = TRUE, !.began = TRUE,
                            !.committed = (proc.status = 200),
                            !.failed = (proc.status = 500),
                            !.released = ~proc.client]
    /\ pre' = db
    /\ lastFile' = IF proc.status = 200 THEN proc.file.data ELSE <<>>
    /\ repeated' = FALSE
    /\ discarded' = DiscardedBy
    /\ UNCHANGED <<now, at, hdr, authEvents, reqUser, env, message, reply, req, out,
                   hits, file_uploads, committedFor>>

\* a request arrives, passes the middlewares, takes a client and begins
UploadArrives ==
    \E h \in {"Bearer tSmart", "Bearer tNormal"}, file \in RaceFiles,
       fault \in {NoFault, [NoFault EXCEPT !.connect = TRUE],
                  [NoFault EXCEPT !.failAt = 1]} :
    \E a \in {AuthenticateToken(h, now)} :
    \E z \in {AuthorizeRole("smart_user", a.user)} :
    \E p \in {Cardinality(DOMAIN procs) + 1} :
        /\ p <= MaxUploads
        /\ HasNext(z) \/ fault = NoFault
        /\ route' = "upload"
        /\ at' = now
        /\ hdr' = h
        /\ authEvents' = a.events
        /\ reqUser' = a.user
        /\ handled' = HasNext(z)
        /\ pre' = db
        /\ req' = NoReq
        /\ out' = NoOut
        /\ discarded' = DiscardedBy
        /\ lastFile' = <<>>
        /\ repeated' = FALSE
        /\ IF HasNext(z)
           THEN \E proc \in {UploadBegins(file, fault, db)} :
                  /\ procs' = procs @@ (p :> proc)
                  /\ checkedOut' = checkedOut + (IF proc.client THEN 1 ELSE 0)
                  /\ events' = UploadResponse(proc)
                  /\ errs' = IF proc.pc = "done"
                             THEN "connection terminated unexpectedly" ELSE ""
                  /\ txn' = [NoTxn EXCEPT !.connected = ~fault.connect,
                                          !.began = (proc.pc = "run"),
                                          !.failed = (proc.status = 500),
                                          !.released = ~fault.connect /\ ~proc.client]
           ELSE /\ procs' = procs
                /\ checkedOut' = checkedOut
                /\ events' = Responses(a.events \o z)
                /\ errs' = ""
                /\ txn' = NoTxn
        /\ UNCHANGED <<now, db, env, message, reply, hits, file_uploads, committedFor>>

\* the statements of the next step of a request in flight run
UploadRuns ==
    \E p \in DOMAIN procs, fails \in BOOLEAN :
        /\ procs[p].pc = "run"
        /\ fails \/ ~Waits(p, procs, db)
        /\ \E proc \in {UploadStep(procs[p], fails, db)} :
            /\ procs' = [procs EXCEPT ![p] = proc]
            /\ checkedOut' = checkedOut - (IF proc.client THEN 0 ELSE 1)
            /\ UploadStepRecord(proc)
        /\ db' = db

\* two requests wait for each other: PostgreSQL rejects the statement of one
UploadDeadlock ==
    \E p \in DOMAIN procs :
        /\ Waits(p, procs, db)
        /\ \E q \in DOMAIN procs \ {p} : Waits(q, procs, db)
        /\ \E proc \in {UploadStep(procs[p], TRUE, db)} :
            /\ procs' = [procs EXCEPT ![p] = proc]
            /\ checkedOut' = checkedOut - 1
            /\ UploadStepRecord(proc)
        /\ db' = db

\* a request in flight commits, or fails to
UploadCommits ==
    \E p \in DOMAIN procs, fails \in BOOLEAN :
        /\ procs[p].pc = "commit"
        /\ \E r \in {UploadEnds(procs[p], fails, db)} :
            /\ procs' = [procs EXCEPT ![p] = r.proc]
            /\ db' = r.db
            /\ checkedOut' = checkedOut - 1
            /\ UploadStepRecord(r.proc)

NextUploads == UploadArrives \/ UploadRuns \/ UploadDeadlock \/ UploadCommits

SpecUploads == Init /\ [][NextUploads]_vars

\* the tables after the uploads of files, one after the other, from tables
RECURSIVE SerialUploads(_, _)
SerialUploads(files, tables) ==
    IF files = <<>> THEN tables
    ELSE SerialUploads(Tail(files), UploadHandler(Head(files), NoFault, tables).db)

\* C27: when the upload requests have all ended, the tables are those that the
\* requests that committed give when they run one after the other, in one
\* order or the other, from the tables the first of them found.
C27_UploadsSerializable ==
    (procs # EmptyTable /\ \A p \in DOMAIN procs : procs[p].pc = "done") =>
        LET committed == { p \in DOMAIN procs : procs[p].status = 200 }
            orders == { o \in [1..Cardinality(committed) -> committed] :
                          \A i, j \in DOMAIN o : i # j => o[i] # o[j] }
        IN  \E o \in orders :
                db = SerialUploads([i \in DOMAIN o |-> procs[o[i]].file],
                                   procs[1].origin)

(***************************************************************************)
(* The clients of the pool: config/database.js testDatabaseConnections,    *)
(* scripts/create-schema.js createTables, and the handlers above           *)
(***************************************************************************)

\* the clients that may stay checked out in the model; the pool itself allows
\* max: 20 before connect() waits and times out
MaxLeaked == 1

\* testDatabaseConnections(): connect, SELECT NOW(), release, all inside the
\* try; the catch logs and throws again, and there is no finally
TestDatabaseConnections(connectFails, queryFails) ==
    IF connectFails
    THEN [txn |-> [NoTxn EXCEPT !.failed = TRUE], threw |-> TRUE,
          err |-> "connect ETIMEDOUT"]
    ELSE IF queryFails
    THEN [txn |-> [NoTxn EXCEPT !.connected = TRUE, !.failed = TRUE],
          threw |-> TRUE, err |-> "connection terminated unexpectedly"]
    ELSE [txn |-> [NoTxn EXCEPT !.connected = TRUE, !.released = TRUE,
                                !.resolved = TRUE],
          threw |-> FALSE, err |-> ""]

\* createTables(): connect outside the try; statement 1 drops the four tables,
\* statements 2 to 5 create users, branches, products and inventory, each on
\* its own without BEGIN; release in the finally.  A table that was dropped and
\* not created again is shown as an empty one.
CreateStatements == 5

CreateTables(fault, tables) ==
    IF fault.connect
    THEN [db |-> tables, txn |-> [NoTxn EXCEPT !.failed = TRUE]]
    ELSE LET t == [NoTxn EXCEPT !.connected = TRUE, !.released = TRUE] IN
         IF fault.failAt = 1
         THEN [db |-> tables, txn |-> [t EXCEPT !.failed = TRUE]]
         ELSE IF fault.failAt \in 2..CreateStatements
         THEN [db |-> EmptyDb, txn |-> [t EXCEPT !.failed = TRUE]]
         ELSE [db |-> EmptyDb, txn |-> [t EXCEPT !.resolved = TRUE]]

\* the check one second after the server started listening, and the one of
\* initializeDatabase
ConnectionTest ==
    \E connectFails \in BOOLEAN, queryFails \in BOOLEAN :
    \E r \in {TestDatabaseConnections(connectFails, queryFails)} :
        /\ connectFails => ~queryFails
        /\ checkedOut + Held(r.txn) <= MaxLeaked
        /\ route' = "testDatabaseConnections"
        /\ at' = now
        /\ hdr' = Undefined
        /\ authEvents' = <<>>
        /\ reqUser' = NoUser
        /\ handled' = TRUE
        /\ pre' = db
        /\ events' = <<>>
        /\ errs' = r.err
        /\ txn' = r.txn
        /\ checkedOut' = checkedOut + Held(r.txn)
        /\ lastFile' = <<>>
        /\ repeated' = FALSE
        /\ UNCHANGED <<db, file_uploads, committedFor, procs, now, env, message,
                       reply, req, out, hits, discarded>>

\* node scripts/create-schema.js
CreateSchema ==
    \E fault \in {NoFault, [NoFault EXCEPT !.connect = TRUE]}
                    \cup {[NoFault EXCEPT !.failAt = k] : k \in {1, 3}} :
    \E r \in {CreateTables(fault, db)} :
        ScriptRan("createTables", r, <<>>)

\* faults of a transaction of one row: no connection, and a failing
\* statement with a ROLLBACK that fails too
PoolFaults ==
    {[NoFault EXCEPT !.connect = TRUE],
     [NoFault EXCEPT !.failAt = 2, !.rollback = TRUE]}

PoolProcessFaults ==
    {NoProcessFault, [NoProcessFault EXCEPT !.connect = TRUE],
     [NoProcessFault EXCEPT !.update = TRUE],
     [NoProcessFault EXCEPT !.failAt = 1, !.rollback = TRUE]}

\* every operation that takes a client from the pool
NextPool ==
    \/ UploadOf({File(<<SalesRow("RL50", "Chennai", "3", "1.5", "5", "Inv")>>)},
                {NoFault} \cup PoolFaults)
    \/ UploadFile
    \/ ProcessFileOf({"inventory"}, PoolProcessFaults)
    \/ ImportCSVOf({SalesRow("RL50", "Chennai", "3", "1.5", "5", "Inv")}, PoolFaults)
    \/ CreateSchema
    \/ ConnectionTest

SpecPool == Init /\ [][NextPool]_vars

\* C28: every client taken with pgPool.connect() is released on every path, so
\* whenever the requests, scripts and checks so far have ended no client is
\* checked out, and the operation that just ended released the client it took.
C28_NoClientLeaks ==
    /\ checkedOut = 0
    /\ txn.connected => txn.released

====
